---- MODULE Spec2Model ----
(***************************************************************************)
(* Selective-Repeat ARQ, the four drafted variants of the repository:      *)
(*   "base"     src/sr.c lines 1-382                                       *)
(*   "queue"    src/sr.c lines 383-770   (outbound message queue)          *)
(*   "timerseq" src/sr.c lines 772-1170  (current_timer_seq)               *)
(*   "sack"     src/unnamed/part_000     (SACK in the ACK payload)         *)
(* C arrays are functions over 0..N-1 so that index arithmetic is the      *)
(* code's.  Each handler is an operator from the entity's statics (a       *)
(* record), the emulator's timer and the argument to the new statics, the  *)
(* new timer and the calls the handler made (tolayer3, tolayer5, timer     *)
(* calls, counter increments).                                             *)
(***************************************************************************)
EXTENDS Integers, Sequences, FiniteSets, TLC

VARIABLES variant, mode, A, B, timer, AtoB, BtoA, nsub, nloss, unacked, accepted, sent,
          delivered, last, clock

vars ==
  <<variant, mode, A, B, timer, AtoB, BtoA, nsub, nloss, unacked, accepted, sent,
    delivered, last, clock>>

(***************************************************************************)
(* Program constants                                                       *)
(***************************************************************************)
RTT == 16
WINDOWSIZE == 6
SEQSPACE == 12
NOTINUSE == -1
MAX_SACK == 6
MAX_QUEUE_SIZE == 50
PAYLOADLEN == 20

(***************************************************************************)
(* Bounds of the model                                                     *)
(***************************************************************************)
NoisyFeed == 2
BurstMsgs == 3
SlowMsgs == 13
SlowWin == 1
FloodMsgs == 8
FloodChan == 8
MaxLoss == 1
MaxFeed == 6
TimedMsgs == 2
MaxChan == 2
MaxBlocked == 1
BacklogGap == 1
BacklogCalls == 4
StreamMsgs == 14
ReuseFaults == 2

Slots == 0 .. (WINDOWSIZE - 1)
Bytes == 0 .. (PAYLOADLEN - 1)

(* struct pkt / struct msg of the emulator interface *)
Pkt(s, a, c, p) == [seqnum |-> s, acknum |-> a, checksum |-> c, payload |-> p]
ZeroPayload == [i \in Bytes |-> 0]
ZeroPkt == Pkt(0, 0, 0, ZeroPayload)
Fill(ch) == [i \in Bytes |-> ch]
ASCII0 == 48
(* the k-th message handed to A_output: twenty copies of one letter *)
MsgData(k) == Fill(97 + (k % 26))

NoCnt == [total_ACKs_received |-> 0, new_ACKs |-> 0, packets_resent |-> 0,
          window_full |-> 0, packets_received |-> 0]

(* the sum with the loop stopping one byte short of the payload's end *)
RECURSIVE SumBytesShort(_, _)
SumBytesShort(p, n) ==
  IF n = 0 THEN 0
  ELSE (IF n = PAYLOADLEN THEN 0 ELSE p[n - 1]) + SumBytesShort(p, n - 1)

RECURSIVE SumBytes(_, _)
SumBytes(p, n) == IF n = 0 THEN 0 ELSE p[n - 1] + SumBytes(p, n - 1)

(* the checksum with acknum left out of the sum *)
ChecksumNoAcknum(packet) == packet.seqnum + SumBytes(packet.payload, PAYLOADLEN)

(* the checksum with the loop over the payload left out *)
ChecksumHeaderOnly(packet) == packet.seqnum + packet.acknum

ComputeChecksum(packet) ==
  packet.seqnum + packet.acknum + SumBytes(packet.payload, PAYLOADLEN)

IsCorrupted(packet) == packet.checksum # ComputeChecksum(packet)

(* the emulator's timer for entity A: -1 when no timer event is pending,     *)
(* else the ticks left.  starttimer on a started timer and stoptimer on a    *)
(* stopped one only print a warning.                                         *)
TimerOff == -1
starttimer(t) == IF t = TimerOff THEN RTT ELSE t
stoptimer(t) == TimerOff

(* the emulator's corruption of a packet in transit *)
Corrupt(p, k) ==
  CASE k = 1 -> [p EXCEPT !.payload = [p.payload EXCEPT ![0] = 90]]
    [] k = 2 -> [p EXCEPT !.seqnum = 999999]
    [] OTHER -> [p EXCEPT !.acknum = 999999]

(***************************************************************************)
(* SACK codec (src/unnamed/part_000)                                       *)
(* sack_info is [count, seqnums]; seqnums holds the count entries that the *)
(* code has written (the rest of the C array is never read).               *)
(***************************************************************************)
NoSack == [count |-> 0, seqnums |-> <<>>]

(* the encoding with the two digits of each number in the other order *)
EncodeSACKSwapped(sack) ==
  [i \in Bytes |->
     IF i = 0 THEN ASCII0 + sack.count
     ELSE IF i < 1 + sack.count * 2 /\ (i - 1) \div 2 < MAX_SACK
       THEN (IF (i - 1) % 2 = 0
               THEN ASCII0 + (sack.seqnums[((i - 1) \div 2) + 1] % 10)
               ELSE ASCII0 + (sack.seqnums[((i - 1) \div 2) + 1] \div 10))
       ELSE ASCII0]

EncodeSACK(sack) ==
  [i \in Bytes |->
     IF i = 0 THEN ASCII0 + sack.count
     ELSE IF i < 1 + sack.count * 2 /\ (i - 1) \div 2 < MAX_SACK
       THEN (IF (i - 1) % 2 = 0
               THEN ASCII0 + (sack.seqnums[((i - 1) \div 2) + 1] \div 10)
               ELSE ASCII0 + (sack.seqnums[((i - 1) \div 2) + 1] % 10))
       ELSE ASCII0]

(* the decoding with the lower bound of the count left unchecked *)
DecodeSACKNoFloor(packet) ==
  LET count == packet.payload[0] - ASCII0
      tens(i) == packet.payload[1 + i * 2] - ASCII0
      ones(i) == packet.payload[2 + i * 2] - ASCII0
  IN IF count > MAX_SACK THEN NoSack
     ELSE IF \E i \in 0 .. (count - 1) :
                tens(i) < 0 \/ tens(i) > 9 \/ ones(i) < 0 \/ ones(i) > 9
       THEN NoSack
       ELSE [count |-> count,
             seqnums |-> [i \in 1 .. count |-> tens(i - 1) * 10 + ones(i - 1)]]

DecodeSACK(packet) ==
  LET count == packet.payload[0] - ASCII0
      tens(i) == packet.payload[1 + i * 2] - ASCII0
      ones(i) == packet.payload[2 + i * 2] - ASCII0
  IN IF count > MAX_SACK \/ count < 0 THEN NoSack
     ELSE IF \E i \in 0 .. (count - 1) :
                tens(i) < 0 \/ tens(i) > 9 \/ ones(i) < 0 \/ ones(i) > 9
       THEN NoSack
       ELSE [count |-> count,
             seqnums |-> [i \in 1 .. count |-> tens(i - 1) * 10 + ones(i - 1)]]

(***************************************************************************)
(* What a handler returns.                                                 *)
(*   st: the entity's statics, tm: the emulator's timer, out: the packets  *)
(*   given to tolayer3, deliv: the payloads given to tolayer5, calls: the  *)
(*   starttimer/stoptimer calls with the timer they found, cnt: counter    *)
(*   increments.                                                           *)
(***************************************************************************)
Res(st, tm, out, deliv, calls, cnt) ==
  [st |-> st, tm |-> tm, out |-> out, deliv |-> deliv, calls |-> calls, cnt |-> cnt]

StartCall(t) == <<"starttimer", t # TimerOff>>
StopCall(t) == <<"stoptimer", t # TimerOff>>

(* the window test of A_output with the limit itself let through *)
WindowHasRoomLoose(a) == a.windowcount <= WINDOWSIZE

(* the window test of A_output left out *)
WindowHasRoomAlways(a) == a.windowcount >= 0

(* if (windowcount < WINDOWSIZE), the test of every A_output *)
WindowHasRoom(a) == a.windowcount < WINDOWSIZE

(* the data packet with acknum left 0 *)
MakeDataPktZeroAck(seq, data) ==
  LET p == Pkt(seq, 0, 0, data) IN [p EXCEPT !.checksum = ComputeChecksum(p)]

(* the data packet with the sequence number counted in pairs *)
MakeDataPktEven(seq, data) ==
  LET p == Pkt(seq - (seq % 2), NOTINUSE, 0, data)
  IN [p EXCEPT !.checksum = ComputeChecksum(p)]

(* the data packet A_output builds from a message *)
MakeDataPkt(seq, data) ==
  LET p == Pkt(seq, NOTINUSE, 0, data) IN [p EXCEPT !.checksum = ComputeChecksum(p)]

(* index, in window order, of the first of the windowcount slots that      *)
(* satisfies Test; -1 when there is none (the for/break loops)             *)
(***************************************************************************)
(* The loops over an entity's state are recursive operators.  Each takes   *)
(* the state it starts from as a value, CHOOSE done \in {Loop(r) : r \in   *)
(* {r0}} : TRUE being Loop(r0) with r0 evaluated once.                     *)
(***************************************************************************)
RECURSIVE ScanWindow(_, _, _, _)
ScanWindow(test, first, count, i) ==
  IF i >= count THEN -1
  ELSE IF test[(first + i) % WINDOWSIZE] THEN (first + i) % WINDOWSIZE
  ELSE ScanWindow(test, first, count, i + 1)

(* the slide as an if: the window moves by one slot at most *)
SlideOnce(a0) ==
  IF a0.windowcount > 0 /\ a0.acked[a0.windowfirst]
  THEN [a0 EXCEPT !.windowfirst = (a0.windowfirst + 1) % WINDOWSIZE,
                  !.windowcount = a0.windowcount - 1]
  ELSE a0

(* while (windowcount > 0 && acked[windowfirst]) { windowfirst++; windowcount--; } *)
RECURSIVE SlideWindow(_)
SlideWindow(a0) ==
  LET Loop(a) ==
        IF a.windowcount > 0 /\ a.acked[a.windowfirst]
        THEN SlideWindow([a EXCEPT !.windowfirst = (a.windowfirst + 1) % WINDOWSIZE,
                                   !.windowcount = a.windowcount - 1])
        ELSE a
  IN CHOOSE done \in {Loop(a) : a \in {a0}} : TRUE

(***************************************************************************)
(* SACK variant, sender (src/unnamed/part_000)                             *)
(***************************************************************************)
A_init_sack ==
  [buffer |-> [i \in Slots |-> ZeroPkt], windowfirst |-> 0, windowlast |-> -1,
   windowcount |-> 0, A_nextseqnum |-> 0, acked |-> [i \in Slots |-> FALSE],
   timers |-> [i \in Slots |-> NOTINUSE], timer_running |-> 0]

A_output_sack(a, tm, message) ==
  IF WindowHasRoom(a)
  THEN LET sendpkt == MakeDataPkt(a.A_nextseqnum, message)
           wl == (a.windowlast + 1) % WINDOWSIZE
           a1 == [a EXCEPT !.windowlast = wl, !.buffer[wl] = sendpkt,
                           !.acked[wl] = FALSE, !.windowcount = a.windowcount + 1,
                           !.timers[wl] = a.A_nextseqnum,
                           !.A_nextseqnum = (a.A_nextseqnum + 1) % SEQSPACE]
       IN IF a.timer_running = 0
          THEN Res([a1 EXCEPT !.timer_running = 1], starttimer(tm), <<sendpkt>>, <<>>,
                   <<StartCall(tm)>>, NoCnt)
          ELSE Res(a1, tm, <<sendpkt>>, <<>>, <<>>, NoCnt)
  ELSE Res(a, tm, <<>>, <<>>, <<>>, [NoCnt EXCEPT !.window_full = 1])

(* marking one slot acknowledged with timer_running cleared and the        *)
(* stoptimer call left out                                                 *)
AckSlotNoStop_sack(r, idx) ==
  LET a1 == [r.st EXCEPT !.acked[idx] = TRUE]
  IN IF r.st.timers[idx] # NOTINUSE
     THEN [r EXCEPT !.st = [a1 EXCEPT !.timer_running = 0, !.timers[idx] = NOTINUSE],
                    !.new = r.new + 1, !.upd = TRUE]
     ELSE [r EXCEPT !.st = a1, !.new = r.new + 1, !.upd = TRUE]

(* marking one slot acknowledged: lines 216-221 and 248-253; r is          *)
(* [st, tm, calls, new, upd]                                               *)
AckSlot_sack(r, idx) ==
  LET a1 == [r.st EXCEPT !.acked[idx] = TRUE]
  IN IF r.st.timers[idx] # NOTINUSE
     THEN [r EXCEPT !.st = [a1 EXCEPT !.timer_running = 0, !.timers[idx] = NOTINUSE],
                    !.tm = stoptimer(r.tm),
                    !.calls = Append(r.calls, StopCall(r.tm)),
                    !.new = r.new + 1, !.upd = TRUE]
     ELSE [r EXCEPT !.st = a1, !.new = r.new + 1, !.upd = TRUE]

(* the loop over the SACK entries taking each entry for the sequence       *)
(* number after it                                                         *)
RECURSIVE ProcessSackNext(_, _, _)
ProcessSackNext(r0, sack, i) ==
  LET Loop(r) ==
        IF i >= sack.count THEN r
        ELSE LET Hit == [idx \in Slots |->
                           r.st.buffer[idx].seqnum = (sack.seqnums[i + 1] + 1) % SEQSPACE
                           /\ ~r.st.acked[idx]]
                 bufferIndex == ScanWindow(Hit, r.st.windowfirst, r.st.windowcount, 0)
             IN ProcessSackNext(IF bufferIndex # -1 THEN AckSlot_sack(r, bufferIndex) ELSE r,
                                sack, i + 1)
  IN CHOOSE done \in {Loop(r) : r \in {r0}} : TRUE

(* the loop over the SACK entries, lines 231-258 *)
RECURSIVE ProcessSack(_, _, _)
ProcessSack(r0, sack, i) ==
  LET Loop(r) ==
        IF i >= sack.count THEN r
        ELSE LET Hit == [idx \in Slots |-> r.st.buffer[idx].seqnum = sack.seqnums[i + 1]
                                            /\ ~r.st.acked[idx]]
                 bufferIndex == ScanWindow(Hit, r.st.windowfirst, r.st.windowcount, 0)
             IN ProcessSack(IF bufferIndex # -1 THEN AckSlot_sack(r, bufferIndex) ELSE r,
                            sack, i + 1)
  IN CHOOSE done \in {Loop(r) : r \in {r0}} : TRUE

A_input_sack(a, tm, packet) ==
  IF ~IsCorrupted(packet)
  THEN LET sack == DecodeSACK(packet)
           Match == [idx \in Slots |-> a.buffer[idx].seqnum = packet.acknum]
           bufferIndex == ScanWindow(Match, a.windowfirst, a.windowcount, 0)
           r0 == [st |-> a, tm |-> tm, calls |-> <<>>, new |-> 0, upd |-> FALSE]
           r1 == IF bufferIndex # -1 /\ ~a.acked[bufferIndex]
                 THEN AckSlot_sack(r0, bufferIndex) ELSE r0
           r2 == ProcessSack(r1, sack, 0)
           cnt == [NoCnt EXCEPT !.total_ACKs_received = 1, !.new_ACKs = r2.new]
       IN IF r2.upd
          THEN LET a3 == SlideWindow(r2.st)
                   Unacked == [idx \in Slots |-> ~a3.acked[idx]]
                   next_timer_idx == ScanWindow(Unacked, a3.windowfirst, a3.windowcount, 0)
               IN IF a3.timer_running = 0 /\ a3.windowcount > 0 /\ next_timer_idx # -1
                  THEN Res([a3 EXCEPT !.timer_running = 1], starttimer(r2.tm), <<>>, <<>>,
                           Append(r2.calls, StartCall(r2.tm)), cnt)
                  ELSE Res(a3, r2.tm, <<>>, <<>>, r2.calls, cnt)
          ELSE Res(r2.st, r2.tm, <<>>, <<>>, r2.calls, cnt)
  ELSE Res(a, tm, <<>>, <<>>, <<>>, NoCnt)

(* the timer handler of the SACK sender that starts the timer again and    *)
(* leaves timer_running at 0                                               *)
A_timerinterruptFlagLost_sack(a, tm) ==
  LET a1 == [a EXCEPT !.timer_running = 0]
      Unacked == [idx \in Slots |-> ~a1.acked[idx]]
      first_unacked == ScanWindow(Unacked, a1.windowfirst, a1.windowcount, 0)
  IN IF first_unacked # -1
     THEN Res(a1, starttimer(tm), <<a1.buffer[first_unacked]>>, <<>>, <<StartCall(tm)>>,
              [NoCnt EXCEPT !.packets_resent = 1])
     ELSE Res(a1, tm, <<>>, <<>>, <<>>, NoCnt)

(* tm is the timer after the emulator has taken the expired event off *)
A_timerinterrupt_sack(a, tm) ==
  LET a1 == [a EXCEPT !.timer_running = 0]
      Unacked == [idx \in Slots |-> ~a1.acked[idx]]
      first_unacked == ScanWindow(Unacked, a1.windowfirst, a1.windowcount, 0)
  IN IF first_unacked # -1
     THEN Res([a1 EXCEPT !.timer_running = 1], starttimer(tm),
              <<a1.buffer[first_unacked]>>, <<>>, <<StartCall(tm)>>,
              [NoCnt EXCEPT !.packets_resent = 1])
     ELSE Res(a1, tm, <<>>, <<>>, <<>>, NoCnt)

(***************************************************************************)
(* SACK variant, receiver (src/unnamed/part_000)                           *)
(***************************************************************************)
B_init_sack ==
  [expectedseqnum |-> 0, B_nextseqnum |-> 1, rcv_base |-> 0,
   rcv_buffer |-> [i \in Slots |-> ZeroPkt], received |-> [i \in Slots |-> FALSE]]

(* the window test of lines 377-378 *)
InRcvWindow_sack(rcv_base, seqnum) ==
  \/ (rcv_base <= seqnum /\ seqnum < rcv_base + WINDOWSIZE)
  \/ (rcv_base + WINDOWSIZE >= SEQSPACE /\ seqnum < (rcv_base + WINDOWSIZE) % SEQSPACE)

RelativeSeq(rcv_base, seqnum) ==
  IF seqnum >= rcv_base THEN seqnum - rcv_base ELSE SEQSPACE - rcv_base + seqnum

(* is_old_packet of lines 453-463 *)
IsOldPacket_sack(rcv_base, seqnum) ==
  IF rcv_base > SEQSPACE \div 2
  THEN seqnum < rcv_base /\ seqnum > (rcv_base + WINDOWSIZE) % SEQSPACE
  ELSE seqnum < rcv_base

(* while (next < WINDOWSIZE && received[next]); r is [st, deliv, next] *)
RECURSIVE DeliverRun_sack(_)
DeliverRun_sack(r0) ==
  LET Loop(r) ==
        IF r.next < WINDOWSIZE /\ r.st.received[r.next]
        THEN DeliverRun_sack(
               [st |-> [r.st EXCEPT !.received[r.next] = FALSE,
                                    !.expectedseqnum = (r.st.expectedseqnum + 1) % SEQSPACE,
                                    !.rcv_base = (r.st.expectedseqnum + 1) % SEQSPACE],
                deliv |-> Append(r.deliv, r.st.rcv_buffer[r.next].payload),
                next |-> r.next + 1])
        ELSE r
  IN CHOOSE done \in {Loop(r) : r \in {r0}} : TRUE

(* the two loops that shift received[] down by next *)
ShiftReceived(received, next) ==
  [i \in Slots |-> IF i < WINDOWSIZE - next THEN received[i + next] ELSE FALSE]

(* the loop that fills sack with the primary acknum listed as well *)
RECURSIVE BuildSackNoSkip(_, _, _, _, _)
BuildSackNoSkip(received, rcv_base, skip, i, sack) ==
  IF i >= WINDOWSIZE THEN sack
  ELSE IF received[i]
    THEN LET s1 == [count |-> sack.count + 1,
                    seqnums |-> Append(sack.seqnums, (rcv_base + i) % SEQSPACE)]
         IN IF s1.count >= MAX_SACK THEN s1
            ELSE BuildSackNoSkip(received, rcv_base, skip, i + 1, s1)
    ELSE BuildSackNoSkip(received, rcv_base, skip, i + 1, sack)

(* the loops that fill sack: every i with received[i] whose sequence number *)
(* is not skip, in index order, at most MAX_SACK of them                    *)
RECURSIVE BuildSack(_, _, _, _, _)
BuildSack(received, rcv_base, skip, i, sack) ==
  IF i >= WINDOWSIZE THEN sack
  ELSE IF received[i] /\ (rcv_base + i) % SEQSPACE # skip
    THEN LET s1 == [count |-> sack.count + 1,
                    seqnums |-> Append(sack.seqnums, (rcv_base + i) % SEQSPACE)]
         IN IF s1.count >= MAX_SACK THEN s1
            ELSE BuildSack(received, rcv_base, skip, i + 1, s1)
    ELSE BuildSack(received, rcv_base, skip, i + 1, sack)

(* lines 500-511: the ACK packet B sends *)
MakeAck_sack(b, acknum, sack) ==
  LET p == Pkt(b.B_nextseqnum, acknum, 0, EncodeSACK(sack))
  IN [p EXCEPT !.checksum = ComputeChecksum(p)]

B_input_sack(b, packet) ==
  LET seqnum == packet.seqnum
      Reply(st, acknum, sack, deliv, cnt) ==
        Res([st EXCEPT !.B_nextseqnum = (st.B_nextseqnum + 1) % 2], TimerOff,
            <<MakeAck_sack(st, acknum, sack)>>, deliv, <<>>, cnt)
  IN IF ~IsCorrupted(packet)
     THEN IF InRcvWindow_sack(b.rcv_base, seqnum)
          THEN LET bufferIndex == RelativeSeq(b.rcv_base, seqnum)
                   b1 == [b EXCEPT !.rcv_buffer[bufferIndex] = packet,
                                   !.received[bufferIndex] = TRUE]
                   cnt == [NoCnt EXCEPT !.packets_received = 1]
               IN IF seqnum = b1.expectedseqnum
                  THEN LET b2 == [b1 EXCEPT
                                    !.expectedseqnum = (b1.expectedseqnum + 1) % SEQSPACE,
                                    !.rcv_base = (b1.expectedseqnum + 1) % SEQSPACE]
                           r == DeliverRun_sack([st |-> b2, deliv |-> <<packet.payload>>,
                                                 next |-> 1])
                           b3 == [r.st EXCEPT
                                    !.received = ShiftReceived(r.st.received, r.next)]
                       IN Reply(b3, seqnum,
                                BuildSack(b3.received, b3.rcv_base, seqnum, 0, NoSack),
                                r.deliv, cnt)
                  ELSE Reply(b1, seqnum,
                             BuildSack(b1.received, b1.rcv_base, seqnum, 0, NoSack),
                             <<>>, cnt)
          ELSE Reply(b, IF IsOldPacket_sack(b.rcv_base, seqnum) THEN seqnum ELSE NOTINUSE,
                     BuildSack(b.received, b.rcv_base, NOTINUSE, 0, NoSack), <<>>, NoCnt)
     ELSE Reply(b, NOTINUSE,
                BuildSack(b.received, b.rcv_base, NOTINUSE, 0, NoSack), <<>>, NoCnt)

(***************************************************************************)
(* SR-base variant (src/sr.c lines 1-382)                                  *)
(***************************************************************************)
A_init_base ==
  [buffer |-> [i \in Slots |-> ZeroPkt], A_windowbase |-> 0, A_nextseqnum |-> 0,
   packet_timer |-> [i \in Slots |-> -1], windowcount |-> 0, timer_running |-> 0,
   oldest_unacked |-> 0]

A_output_base(a, tm, message) ==
  IF WindowHasRoom(a)
  THEN LET sendpkt == MakeDataPkt(a.A_nextseqnum, message)
           window_index == a.A_nextseqnum % WINDOWSIZE
           a1 == [a EXCEPT !.buffer[window_index] = sendpkt,
                           !.packet_timer[window_index] = 0,
                           !.windowcount = a.windowcount + 1,
                           !.A_nextseqnum = (a.A_nextseqnum + 1) % SEQSPACE]
       IN IF a.timer_running = 0
          THEN Res([a1 EXCEPT !.timer_running = 1, !.oldest_unacked = window_index],
                   starttimer(tm), <<sendpkt>>, <<>>, <<StartCall(tm)>>, NoCnt)
          ELSE Res(a1, tm, <<sendpkt>>, <<>>, <<>>, NoCnt)
  ELSE Res(a, tm, <<>>, <<>>, <<>>, [NoCnt EXCEPT !.window_full = 1])

(* the window test of lines 126-129 *)
(* the window test with the wrapped form used whether or not the window wraps *)
InSendWindowLoose_base(a, acknum) == acknum >= a.A_windowbase \/ acknum < a.A_nextseqnum

InSendWindow_base(a, acknum) ==
  \/ (a.A_windowbase <= a.A_nextseqnum
      /\ acknum >= a.A_windowbase /\ acknum < a.A_nextseqnum)
  \/ (a.A_windowbase > a.A_nextseqnum
      /\ (acknum >= a.A_windowbase \/ acknum < a.A_nextseqnum))

(* while (packet_timer[A_windowbase % WINDOWSIZE] == 1 && windowcount > 0) *)
RECURSIVE SlideWindow_base(_)
SlideWindow_base(a0) ==
  LET Loop(a) ==
        IF a.packet_timer[a.A_windowbase % WINDOWSIZE] = 1 /\ a.windowcount > 0
        THEN SlideWindow_base(
               [a EXCEPT !.packet_timer[a.A_windowbase % WINDOWSIZE] = -1,
                         !.A_windowbase = (a.A_windowbase + 1) % SEQSPACE,
                         !.windowcount = a.windowcount - 1])
        ELSE a
  IN CHOOSE done \in {Loop(a) : a \in {a0}} : TRUE

(* for (i = 0; i < WINDOWSIZE; i++) if (packet_timer[i] == 0) ...: the first *)
(* array index whose flag is 0, -1 when there is none                        *)
FirstUnackedIndex_base(packet_timer) ==
  IF \E i \in Slots : packet_timer[i] = 0
  THEN CHOOSE i \in Slots : packet_timer[i] = 0 /\ \A j \in 0 .. (i - 1) : packet_timer[j] # 0
  ELSE -1

A_input_base(a, tm, packet) ==
  IF ~IsCorrupted(packet)
  THEN LET cnt == [NoCnt EXCEPT !.total_ACKs_received = 1]
           window_index == packet.acknum % WINDOWSIZE
       IN IF InSendWindow_base(a, packet.acknum)
          THEN IF a.packet_timer[window_index] = 0
               THEN LET a1 == SlideWindow_base([a EXCEPT !.packet_timer[window_index] = 1])
                        i == FirstUnackedIndex_base(a1.packet_timer)
                        cnt2 == [cnt EXCEPT !.new_ACKs = 1]
                    IN IF a1.windowcount > 0 /\ i # -1
                       THEN Res([a1 EXCEPT !.oldest_unacked = i],
                                starttimer(stoptimer(tm)), <<>>, <<>>,
                                <<StopCall(tm), StartCall(stoptimer(tm))>>, cnt2)
                       ELSE Res([a1 EXCEPT !.timer_running = 0], stoptimer(tm), <<>>, <<>>,
                                <<StopCall(tm)>>, cnt2)
               ELSE Res(a, tm, <<>>, <<>>, <<>>, cnt)
          ELSE Res(a, tm, <<>>, <<>>, <<>>, cnt)
  ELSE Res(a, tm, <<>>, <<>>, <<>>, NoCnt)

(* the for loop of lines 213-220: the next slot after oldest_unacked, going  *)
(* round the array, whose flag is 0; -1 when there is none                   *)
RECURSIVE NextUnacked_base(_, _, _)
NextUnacked_base(packet_timer, oldest, i) ==
  IF i = oldest THEN -1
  ELSE IF packet_timer[i] = 0 THEN i
  ELSE NextUnacked_base(packet_timer, oldest, (i + 1) % WINDOWSIZE)

A_timerinterrupt_base(a, tm) ==
  LET resend == a.packet_timer[a.oldest_unacked] = 0
      out == IF resend THEN <<a.buffer[a.oldest_unacked]>> ELSE <<>>
      cnt == IF resend THEN [NoCnt EXCEPT !.packets_resent = 1] ELSE NoCnt
      next_unacked == NextUnacked_base(a.packet_timer, a.oldest_unacked,
                                       (a.oldest_unacked + 1) % WINDOWSIZE)
  IN IF next_unacked # -1
     THEN Res([a EXCEPT !.oldest_unacked = next_unacked], starttimer(tm), out, <<>>,
              <<StartCall(tm)>>, cnt)
     ELSE IF resend
     THEN Res(a, starttimer(tm), out, <<>>, <<StartCall(tm)>>, cnt)
     ELSE Res([a EXCEPT !.timer_running = 0], tm, out, <<>>, <<>>, cnt)

B_init_base ==
  [B_windowbase |-> 0, B_nextseqnum |-> 1,
   recv_buffer |-> [i \in Slots |-> ZeroPkt], packet_received |-> [i \in Slots |-> 0]]

(* the window test of lines 275-278 *)
InRcvWindow_base(B_windowbase, seqnum) ==
  LET top == (B_windowbase + WINDOWSIZE - 1) % SEQSPACE
  IN \/ (B_windowbase <= top /\ seqnum >= B_windowbase /\ seqnum <= top)
     \/ (B_windowbase > top /\ (seqnum >= B_windowbase \/ seqnum <= top))

(* the test of lines 314-316: a packet already ACKed, before the window base *)
AlreadyAcked_base(B_windowbase, seqnum) ==
  LET low == (B_windowbase - WINDOWSIZE + SEQSPACE) % SEQSPACE
  IN low <= B_windowbase - 1 /\ seqnum >= low /\ seqnum <= B_windowbase - 1

(* the delivery loop with only packet_received[] shifted down, recv_buffer[] *)
(* left where it is                                                          *)
RECURSIVE DeliverRunFlagsOnly_base(_)
DeliverRunFlagsOnly_base(r0) ==
  LET Loop(r) ==
        IF r.st.packet_received[0] # 0
        THEN DeliverRunFlagsOnly_base(
               [st |-> [r.st EXCEPT
                          !.packet_received = [i \in Slots |->
                             IF i < WINDOWSIZE - 1 THEN r.st.packet_received[i + 1] ELSE 0],
                          !.B_windowbase = (r.st.B_windowbase + 1) % SEQSPACE],
                deliv |-> Append(r.deliv, r.st.recv_buffer[0].payload)])
        ELSE r
  IN CHOOSE done \in {Loop(r) : r \in {r0}} : TRUE

(* while (packet_received[0]): deliver slot 0, shift both arrays down by one *)
(* (slot WINDOWSIZE-1 keeps its packet, its flag is cleared), advance base   *)
RECURSIVE DeliverRun_base(_)
DeliverRun_base(r0) ==
  LET Loop(r) ==
        IF r.st.packet_received[0] # 0
        THEN DeliverRun_base(
               [st |-> [r.st EXCEPT
                          !.packet_received = [i \in Slots |->
                             IF i < WINDOWSIZE - 1 THEN r.st.packet_received[i + 1] ELSE 0],
                          !.recv_buffer = [i \in Slots |->
                             IF i < WINDOWSIZE - 1 THEN r.st.recv_buffer[i + 1]
                             ELSE r.st.recv_buffer[i]],
                          !.B_windowbase = (r.st.B_windowbase + 1) % SEQSPACE],
                deliv |-> Append(r.deliv, r.st.recv_buffer[0].payload)])
        ELSE r
  IN CHOOSE done \in {Loop(r) : r \in {r0}} : TRUE

(* the ACK packet with its checksum field never filled in *)
MakeAckUnsummed(B_nextseqnum, acknum) == Pkt(B_nextseqnum, acknum, 0, Fill(ASCII0))

(* lines 340-352: the ACK packet B sends, payload twenty '0' *)
MakeAck(B_nextseqnum, acknum) ==
  LET p == Pkt(B_nextseqnum, acknum, 0, Fill(ASCII0))
  IN [p EXCEPT !.checksum = ComputeChecksum(p)]

B_input_base(b, packet) ==
  LET Reply(st, acknum, deliv, cnt) ==
        Res([st EXCEPT !.B_nextseqnum = (st.B_nextseqnum + 1) % 2], TimerOff,
            <<MakeAck(st.B_nextseqnum, acknum)>>, deliv, <<>>, cnt)
  IN IF ~IsCorrupted(packet)
     THEN IF InRcvWindow_base(b.B_windowbase, packet.seqnum)
          THEN LET window_index ==
                     ((packet.seqnum - b.B_windowbase + SEQSPACE) % SEQSPACE) % WINDOWSIZE
                   fresh == b.packet_received[window_index] = 0
                   b1 == IF fresh
                         THEN [b EXCEPT !.recv_buffer[window_index] = packet,
                                        !.packet_received[window_index] = 1]
                         ELSE b
                   r == DeliverRun_base([st |-> b1, deliv |-> <<>>])
               IN Reply(r.st, packet.seqnum, r.deliv,
                        IF fresh THEN [NoCnt EXCEPT !.packets_received = 1] ELSE NoCnt)
          ELSE IF AlreadyAcked_base(b.B_windowbase, packet.seqnum)
               THEN Reply(b, packet.seqnum, <<>>, NoCnt)
               ELSE Res(b, TimerOff, <<>>, <<>>, <<>>, NoCnt)
     ELSE Res(b, TimerOff, <<>>, <<>>, <<>>, NoCnt)

(***************************************************************************)
(* SR-queue variant (src/sr.c lines 383-770)                               *)
(***************************************************************************)
QueueSlots == 0 .. (MAX_QUEUE_SIZE - 1)

A_init_queue ==
  [buffer |-> [i \in Slots |-> ZeroPkt], windowfirst |-> 0, windowlast |-> -1,
   windowcount |-> 0, A_nextseqnum |-> 0, acked |-> [i \in Slots |-> FALSE],
   timer_for_pkt |-> 0,
   message_queue |-> [i \in QueueSlots |-> ZeroPayload],
   queue_front |-> 0, queue_rear |-> 0, queue_size |-> 0]

(* the enqueue with queue_rear left where it was *)
EnqueueInPlace(a, message) ==
  [a EXCEPT !.message_queue[a.queue_rear] = message, !.queue_size = a.queue_size + 1]

(* the enqueue that puts the new message in front of the waiting ones *)
EnqueueAtFront(a, message) ==
  LET qf == (a.queue_front + MAX_QUEUE_SIZE - 1) % MAX_QUEUE_SIZE
  IN [a EXCEPT !.message_queue[qf] = message, !.queue_front = qf,
               !.queue_size = a.queue_size + 1]

(* message_queue[queue_rear] = message; queue_rear = (queue_rear + 1) %    *)
(* MAX_QUEUE_SIZE; queue_size++                                            *)
Enqueue(a, message) ==
  [a EXCEPT !.message_queue[a.queue_rear] = message,
            !.queue_rear = (a.queue_rear + 1) % MAX_QUEUE_SIZE,
            !.queue_size = a.queue_size + 1]

(* the queue test with a full queue let through *)
QueueHasRoomLoose(a) == a.queue_size <= MAX_QUEUE_SIZE

(* if (queue_size < MAX_QUEUE_SIZE), line 504 *)
QueueHasRoom(a) == a.queue_size < MAX_QUEUE_SIZE

A_output_queue(a, tm, message) ==
  IF WindowHasRoom(a)
  THEN LET sendpkt == MakeDataPkt(a.A_nextseqnum, message)
           wl == (a.windowlast + 1) % WINDOWSIZE
           a1 == [a EXCEPT !.windowlast = wl, !.buffer[wl] = sendpkt,
                           !.acked[wl] = FALSE, !.windowcount = a.windowcount + 1,
                           !.A_nextseqnum = (a.A_nextseqnum + 1) % SEQSPACE]
       IN IF a1.windowcount = 1
          THEN Res([a1 EXCEPT !.timer_for_pkt = a1.windowfirst], starttimer(tm),
                   <<sendpkt>>, <<>>, <<StartCall(tm)>>, NoCnt)
          ELSE Res(a1, tm, <<sendpkt>>, <<>>, <<>>, NoCnt)
  ELSE IF QueueHasRoom(a)
  THEN Res(Enqueue(a, message), tm, <<>>, <<>>, <<>>, [NoCnt EXCEPT !.window_full = 1])
  ELSE Res(a, tm, <<>>, <<>>, <<>>, [NoCnt EXCEPT !.window_full = 1])

(* the window test with the first sequence number of the window left out *)
InSendWindowStrict_queue(a, acknum) ==
  LET seqfirst == a.buffer[a.windowfirst].seqnum
      seqlast == a.buffer[a.windowlast].seqnum
  IN IF seqfirst <= seqlast
     THEN acknum > seqfirst /\ acknum <= seqlast
     ELSE acknum > seqfirst \/ acknum <= seqlast

(* the window test of lines 533-542 *)
InSendWindow_queue(a, acknum) ==
  LET seqfirst == a.buffer[a.windowfirst].seqnum
      seqlast == a.buffer[a.windowlast].seqnum
  IN IF seqfirst <= seqlast
     THEN acknum >= seqfirst /\ acknum <= seqlast
     ELSE acknum >= seqfirst \/ acknum <= seqlast

(* while (buffer[pos].seqnum != packet.acknum) pos = (pos + 1) % WINDOWSIZE; *)
(* n counts the steps: the search is cut off after WINDOWSIZE of them, where *)
(* the code would go round the buffer for ever                               *)
RECURSIVE FindPos_queue(_, _, _, _)
FindPos_queue(buffer, acknum, pos, n) ==
  IF buffer[pos].seqnum = acknum THEN pos
  ELSE IF n >= WINDOWSIZE THEN -1
  ELSE FindPos_queue(buffer, acknum, (pos + 1) % WINDOWSIZE, n + 1)

(* while (windowcount > 0 && acked[windowfirst]) with the flag cleared *)
RECURSIVE SlideWindow_queue(_)
SlideWindow_queue(a0) ==
  LET Loop(a) ==
        IF a.windowcount > 0 /\ a.acked[a.windowfirst]
        THEN SlideWindow_queue([a EXCEPT !.acked[a.windowfirst] = FALSE,
                                         !.windowfirst = (a.windowfirst + 1) % WINDOWSIZE,
                                         !.windowcount = a.windowcount - 1])
        ELSE a
  IN CHOOSE done \in {Loop(a) : a \in {a0}} : TRUE

(* the loop of lines 575-583 as an if: one queued message sent at most *)
DrainOne(r0) ==
  IF r0.st.queue_size > 0 /\ r0.st.windowcount < WINDOWSIZE
  THEN LET a1 == [r0.st EXCEPT !.queue_front = (r0.st.queue_front + 1) % MAX_QUEUE_SIZE,
                               !.queue_size = r0.st.queue_size - 1]
           o == A_output_queue(a1, r0.tm, r0.st.message_queue[r0.st.queue_front])
       IN Res(o.st, o.tm, r0.out \o o.out, <<>>, r0.calls \o o.calls, r0.cnt)
  ELSE r0

(* lines 575-583: send queued messages while the window has room; r is a Res *)
RECURSIVE DrainQueue(_)
DrainQueue(r0) ==
  LET Loop(r) ==
        IF r.st.queue_size > 0 /\ r.st.windowcount < WINDOWSIZE
        THEN LET next_message == r.st.message_queue[r.st.queue_front]
                 a1 == [r.st EXCEPT !.queue_front = (r.st.queue_front + 1) % MAX_QUEUE_SIZE,
                                    !.queue_size = r.st.queue_size - 1]
                 o == A_output_queue(a1, r.tm, next_message)
             IN DrainQueue(Res(o.st, o.tm, r.out \o o.out, <<>>, r.calls \o o.calls,
                               [r.cnt EXCEPT
                                  !.window_full = r.cnt.window_full + o.cnt.window_full]))
        ELSE r
  IN CHOOSE done \in {Loop(r) : r \in {r0}} : TRUE

A_input_queue(a, tm, packet) ==
  IF ~IsCorrupted(packet)
  THEN LET cnt == [NoCnt EXCEPT !.total_ACKs_received = 1]
           pos == FindPos_queue(a.buffer, packet.acknum, a.windowfirst, 0)
       IN IF a.windowcount # 0 /\ InSendWindow_queue(a, packet.acknum) /\ pos # -1
             /\ ~a.acked[pos]
          THEN LET a1 == [a EXCEPT !.acked[pos] = TRUE]
                   cnt2 == [cnt EXCEPT !.new_ACKs = 1]
               IN IF pos = a.windowfirst
                  THEN LET a2 == SlideWindow_queue(a1)
                       IN IF a2.windowcount > 0
                          THEN DrainQueue(Res([a2 EXCEPT !.timer_for_pkt = a2.windowfirst],
                                              starttimer(stoptimer(tm)), <<>>, <<>>,
                                              <<StopCall(tm), StartCall(stoptimer(tm))>>,
                                              cnt2))
                          ELSE DrainQueue(Res(a2, stoptimer(tm), <<>>, <<>>,
                                              <<StopCall(tm)>>, cnt2))
                  ELSE DrainQueue(Res(a1, tm, <<>>, <<>>, <<>>, cnt2))
          ELSE Res(a, tm, <<>>, <<>>, <<>>, cnt)
  ELSE Res(a, tm, <<>>, <<>>, <<>>, NoCnt)

(* while (count < windowcount && acked[next_pkt]); r is [next_pkt, count] *)
RECURSIVE NextPkt_queue(_, _, _)
NextPkt_queue(a, next_pkt, count) ==
  IF count < a.windowcount /\ a.acked[next_pkt]
  THEN NextPkt_queue(a, (next_pkt + 1) % WINDOWSIZE, count + 1)
  ELSE [next_pkt |-> next_pkt, count |-> count]

A_timerinterrupt_queue(a, tm) ==
  IF a.windowcount > 0
  THEN LET n == NextPkt_queue(a, (a.timer_for_pkt + 1) % WINDOWSIZE, 0)
       IN Res([a EXCEPT !.timer_for_pkt =
                 IF n.count = a.windowcount THEN a.windowfirst ELSE n.next_pkt],
              starttimer(stoptimer(tm)), <<a.buffer[a.timer_for_pkt]>>, <<>>,
              <<StopCall(tm), StartCall(stoptimer(tm))>>,
              [NoCnt EXCEPT !.packets_resent = 1])
  ELSE Res(a, tm, <<>>, <<>>, <<>>, NoCnt)

B_init_queue ==
  [expectedseqnum |-> 0, B_nextseqnum |-> 1, rcv_base |-> 0,
   recv_buffer |-> [i \in Slots |-> ZeroPkt], received |-> [i \in Slots |-> FALSE]]

(* lines 673-677 *)
Offset_queue(rcv_base, seqnum) ==
  IF seqnum >= rcv_base THEN seqnum - rcv_base
  ELSE (seqnum - rcv_base + SEQSPACE) % SEQSPACE

(* while (received[rcv_base % WINDOWSIZE]); r is [st, deliv, n] *)
RECURSIVE DeliverRun_queue(_)
DeliverRun_queue(r0) ==
  LET Loop(r) ==
        IF r.st.received[r.st.rcv_base % WINDOWSIZE]
        THEN DeliverRun_queue(
               [st |-> [r.st EXCEPT !.received[r.st.rcv_base % WINDOWSIZE] = FALSE,
                                    !.rcv_base = (r.st.rcv_base + 1) % SEQSPACE,
                                    !.expectedseqnum = (r.st.expectedseqnum + 1) % SEQSPACE],
                deliv |-> Append(r.deliv, r.st.recv_buffer[r.st.rcv_base % WINDOWSIZE].payload),
                n |-> r.n + 1])
        ELSE r
  IN CHOOSE done \in {Loop(r) : r \in {r0}} : TRUE

B_input_queue(b, packet) ==
  LET offset == Offset_queue(b.rcv_base, packet.seqnum)
      Reply(st, acknum, deliv, cnt) ==
        Res([st EXCEPT !.B_nextseqnum = (st.B_nextseqnum + 1) % 2], TimerOff,
            <<MakeAck(st.B_nextseqnum, acknum)>>, deliv, <<>>, cnt)
  IN IF ~IsCorrupted(packet)
     THEN IF offset < WINDOWSIZE
          THEN LET pos == (b.rcv_base + offset) % WINDOWSIZE
                   b1 == [b EXCEPT !.recv_buffer[pos] = packet, !.received[pos] = TRUE]
               IN IF packet.seqnum = b1.expectedseqnum
                  THEN LET r == DeliverRun_queue([st |-> b1, deliv |-> <<>>, n |-> 0])
                       IN Reply(r.st, packet.seqnum, r.deliv,
                                [NoCnt EXCEPT !.packets_received = r.n])
                  ELSE Reply(b1, packet.seqnum, <<>>, NoCnt)
          ELSE IF offset < 2 * WINDOWSIZE
               THEN Reply(b, packet.seqnum, <<>>, NoCnt)
               ELSE Res(b, TimerOff, <<>>, <<>>, <<>>, NoCnt)
     ELSE Res(b, TimerOff, <<>>, <<>>, <<>>, NoCnt)

(***************************************************************************)
(* SR-timerseq variant (src/sr.c lines 772-1170)                           *)
(***************************************************************************)
A_init_timerseq ==
  [buffer |-> [i \in Slots |-> ZeroPkt], windowfirst |-> 0, windowlast |-> -1,
   windowcount |-> 0, A_nextseqnum |-> 0, acked |-> [i \in Slots |-> FALSE],
   current_timer_seq |-> NOTINUSE, timer_running |-> 0]

A_output_timerseq(a, tm, message) ==
  IF WindowHasRoom(a)
  THEN LET sendpkt == MakeDataPkt(a.A_nextseqnum, message)
           wl == (a.windowlast + 1) % WINDOWSIZE
           a1 == [a EXCEPT !.windowlast = wl, !.buffer[wl] = sendpkt,
                           !.acked[wl] = FALSE, !.windowcount = a.windowcount + 1,
                           !.A_nextseqnum = (a.A_nextseqnum + 1) % SEQSPACE]
       IN IF a.timer_running = 0
          THEN Res([a1 EXCEPT !.current_timer_seq = sendpkt.seqnum, !.timer_running = 1],
                   starttimer(tm), <<sendpkt>>, <<>>, <<StartCall(tm)>>, NoCnt)
          ELSE Res(a1, tm, <<sendpkt>>, <<>>, <<>>, NoCnt)
  ELSE Res(a, tm, <<>>, <<>>, <<>>, [NoCnt EXCEPT !.window_full = 1])

A_input_timerseq(a, tm, packet) ==
  IF ~IsCorrupted(packet)
  THEN LET cnt == [NoCnt EXCEPT !.total_ACKs_received = 1]
           Match == [idx \in Slots |-> a.buffer[idx].seqnum = packet.acknum]
           bufferIndex == ScanWindow(Match, a.windowfirst, a.windowcount, 0)
       IN IF bufferIndex # -1 /\ ~a.acked[bufferIndex]
          THEN LET timed == a.timer_running # 0
                              /\ a.buffer[bufferIndex].seqnum = a.current_timer_seq
                   a1 == [a EXCEPT !.acked[bufferIndex] = TRUE,
                                   !.timer_running = IF timed THEN 0 ELSE a.timer_running]
                   tm1 == IF timed THEN stoptimer(tm) ELSE tm
                   calls1 == IF timed THEN <<StopCall(tm)>> ELSE <<>>
                   a2 == SlideWindow(a1)
                   Unacked == [idx \in Slots |-> ~a2.acked[idx]]
                   idx2 == ScanWindow(Unacked, a2.windowfirst, a2.windowcount, 0)
                   cnt2 == [cnt EXCEPT !.new_ACKs = 1]
               IN IF (timed \/ a2.timer_running = 0) /\ a2.windowcount > 0 /\ idx2 # -1
                  THEN Res([a2 EXCEPT !.current_timer_seq = a2.buffer[idx2].seqnum,
                                      !.timer_running = 1],
                           starttimer(tm1), <<>>, <<>>,
                           Append(calls1, StartCall(tm1)), cnt2)
                  ELSE Res(a2, tm1, <<>>, <<>>, calls1, cnt2)
          ELSE Res(a, tm, <<>>, <<>>, <<>>, cnt)
  ELSE Res(a, tm, <<>>, <<>>, <<>>, NoCnt)

(* the timer handler of the timerseq sender that resends and leaves the    *)
(* timer stopped                                                           *)
A_timerinterruptNoRearm_timerseq(a, tm) ==
  LET a1 == [a EXCEPT !.timer_running = 0]
      Unacked == [idx \in Slots |-> ~a1.acked[idx]]
      idx == ScanWindow(Unacked, a1.windowfirst, a1.windowcount, 0)
  IN IF idx # -1
     THEN Res(a1, tm, <<a1.buffer[idx]>>, <<>>, <<>>,
              [NoCnt EXCEPT !.packets_resent = 1])
     ELSE Res(a1, tm, <<>>, <<>>, <<>>, NoCnt)

A_timerinterrupt_timerseq(a, tm) ==
  LET a1 == [a EXCEPT !.timer_running = 0]
      Timed == [idx \in Slots |-> ~a1.acked[idx]
                                /\ a1.buffer[idx].seqnum = a1.current_timer_seq]
      idx1 == ScanWindow(Timed, a1.windowfirst, a1.windowcount, 0)
      Unacked == [idx \in Slots |-> ~a1.acked[idx]]
      next_unacked_idx == ScanWindow(Unacked, a1.windowfirst, a1.windowcount, 0)
      cnt == [NoCnt EXCEPT !.packets_resent = 1]
  IN IF idx1 # -1
     THEN Res([a1 EXCEPT !.timer_running = 1], starttimer(tm), <<a1.buffer[idx1]>>, <<>>,
              <<StartCall(tm)>>, cnt)
     ELSE IF next_unacked_idx # -1
     THEN Res([a1 EXCEPT !.current_timer_seq = a1.buffer[next_unacked_idx].seqnum,
                         !.timer_running = 1],
              starttimer(tm), <<a1.buffer[next_unacked_idx]>>, <<>>, <<StartCall(tm)>>, cnt)
     ELSE Res(a1, tm, <<>>, <<>>, <<>>, NoCnt)

B_init_timerseq ==
  [expectedseqnum |-> 0, B_nextseqnum |-> 1, rcv_base |-> 0,
   rcv_buffer |-> [i \in Slots |-> ZeroPkt], received |-> [i \in Slots |-> FALSE]]

(* while (received[next]) with next = (next + 1) % WINDOWSIZE; r is          *)
(* [st, deliv, next]                                                         *)
RECURSIVE DeliverRun_timerseq(_)
DeliverRun_timerseq(r0) ==
  LET Loop(r) ==
        IF r.st.received[r.next]
        THEN DeliverRun_timerseq(
               [st |-> [r.st EXCEPT !.received[r.next] = FALSE,
                                    !.expectedseqnum = (r.st.expectedseqnum + 1) % SEQSPACE,
                                    !.rcv_base = (r.st.expectedseqnum + 1) % SEQSPACE],
                deliv |-> Append(r.deliv, r.st.rcv_buffer[r.next].payload),
                next |-> (r.next + 1) % WINDOWSIZE])
        ELSE r
  IN CHOOSE done \in {Loop(r) : r \in {r0}} : TRUE

B_input_timerseq(b, packet) ==
  LET seqnum == packet.seqnum
      Reply(st, acknum, deliv, cnt) ==
        Res([st EXCEPT !.B_nextseqnum = (st.B_nextseqnum + 1) % 2], TimerOff,
            <<MakeAck(st.B_nextseqnum, acknum)>>, deliv, <<>>, cnt)
  IN IF ~IsCorrupted(packet)
     THEN LET relativeSeq == RelativeSeq(b.rcv_base, seqnum)
          IN IF relativeSeq < WINDOWSIZE
             THEN LET b1 == [b EXCEPT !.rcv_buffer[relativeSeq] = packet,
                                      !.received[relativeSeq] = TRUE]
                      cnt == [NoCnt EXCEPT !.packets_received = 1]
                  IN IF seqnum = b1.expectedseqnum
                     THEN LET b2 == [b1 EXCEPT
                                       !.expectedseqnum = (b1.expectedseqnum + 1) % SEQSPACE,
                                       !.rcv_base = (b1.expectedseqnum + 1) % SEQSPACE]
                              r == DeliverRun_timerseq(
                                     [st |-> b2, deliv |-> <<packet.payload>>, next |-> 1])
                          IN Reply([r.st EXCEPT
                                      !.received = ShiftReceived(r.st.received, r.next)],
                                   seqnum, r.deliv, cnt)
                     ELSE Reply(b1, seqnum, <<>>, cnt)
             ELSE Reply(b, seqnum, <<>>, NoCnt)
     ELSE Reply(b, NOTINUSE, <<>>, NoCnt)

(***************************************************************************)
(* The handlers of the variant under execution                             *)
(***************************************************************************)
A_init(v) ==
  CASE v = "base" -> A_init_base [] v = "queue" -> A_init_queue
    [] v = "timerseq" -> A_init_timerseq [] OTHER -> A_init_sack

B_init(v) ==
  CASE v = "base" -> B_init_base [] v = "queue" -> B_init_queue
    [] v = "timerseq" -> B_init_timerseq [] OTHER -> B_init_sack

A_output(v, a, tm, message) ==
  CASE v = "base" -> A_output_base(a, tm, message)
    [] v = "queue" -> A_output_queue(a, tm, message)
    [] v = "timerseq" -> A_output_timerseq(a, tm, message)
    [] OTHER -> A_output_sack(a, tm, message)

A_input(v, a, tm, packet) ==
  CASE v = "base" -> A_input_base(a, tm, packet)
    [] v = "queue" -> A_input_queue(a, tm, packet)
    [] v = "timerseq" -> A_input_timerseq(a, tm, packet)
    [] OTHER -> A_input_sack(a, tm, packet)

A_timerinterrupt(v, a, tm) ==
  CASE v = "base" -> A_timerinterrupt_base(a, tm)
    [] v = "queue" -> A_timerinterrupt_queue(a, tm)
    [] v = "timerseq" -> A_timerinterrupt_timerseq(a, tm)
    [] OTHER -> A_timerinterrupt_sack(a, tm)

B_input(v, b, packet) ==
  CASE v = "base" -> B_input_base(b, packet)
    [] v = "queue" -> B_input_queue(b, packet)
    [] v = "timerseq" -> B_input_timerseq(b, packet)
    [] OTHER -> B_input_sack(b, packet)

(* A_output takes the message in (sends it or queues it) *)
Takes(v, a) ==
  \/ a.windowcount < WINDOWSIZE
  \/ (v = "queue" /\ a.queue_size < MAX_QUEUE_SIZE)

(***************************************************************************)
(* The network between the entities: two order-preserving channels that    *)
(* may lose or corrupt a packet.  A packet sent into a channel that already*)
(* holds MaxChan packets is lost.                                          *)
(***************************************************************************)
RECURSIVE Enter(_, _, _)
Enter(ch, out, cap) ==
  IF out = <<>> THEN ch
  ELSE Enter(IF Len(ch) < cap THEN Append(ch, Head(out)) ELSE ch, Tail(out), cap)

NoCall == [op |-> "none"]
NoEntity == [absent |-> TRUE]
NoClock == [s \in 0 .. (SEQSPACE - 1) |-> 0]

(***************************************************************************)
(* The application above A and the network (mode):                         *)
(*   "burst"  BurstMsgs messages, submitted at any moment; channels of     *)
(*            MaxChan packets; any loss, any corruption, a timer event at  *)
(*            any moment                                                   *)
(*   "slow"   SlowMsgs messages, one submitted only while fewer than       *)
(*            SlowWin packets are outstanding; channels of MaxChan         *)
(*            packets; loss and timer as in "flood"                        *)
(*   "flood"  FloodMsgs messages at any moment; channels of FloodChan      *)
(*            packets; at most MaxLoss packets lost or corrupted; the      *)
(*            timer event comes due only once both channels are empty      *)
(*   "stream" StreamMsgs messages at any moment, more than there are       *)
(*            sequence numbers; channels of FloodChan packets              *)
(*   "reuse"  StreamMsgs messages, one submitted only while the window has *)
(*            room; channels of FloodChan packets; at most ReuseFaults     *)
(*            faults: a packet lost or corrupted, or a timer event that    *)
(*            comes due while packets are still on their way; last holds   *)
(*            the data packets that have reached B intact                  *)
(*   "timed"  TimedMsgs messages at any moment, with time in ticks: a      *)
(*            started timer comes due exactly RTT ticks later, and clock   *)
(*            holds the ticks since each sequence number was last sent;    *)
(*            a packet arrives or is lost within the tick it was sent in   *)
(***************************************************************************)
InitOf(v, m) ==
  /\ variant = v
  /\ mode = m
  /\ A = A_init(v)
  /\ B = B_init(v)
  /\ timer = TimerOff
  /\ AtoB = <<>>
  /\ BtoA = <<>>
  /\ nsub = 0
  /\ nloss = 0
  /\ unacked = 0
  /\ accepted = <<>>
  /\ sent = <<>>
  /\ delivered = <<>>
  /\ last = NoCall
  /\ clock = NoClock

EndToEnd == mode \in {"burst", "slow", "flood", "stream", "reuse", "timed"}

MayOutput ==
  CASE mode = "burst" -> nsub < BurstMsgs
    [] mode = "slow" -> nsub < SlowMsgs /\ A.windowcount < SlowWin
    [] mode = "flood" -> nsub < FloodMsgs
    [] mode = "stream" -> nsub < StreamMsgs
    [] mode = "reuse" -> nsub < StreamMsgs /\ WindowHasRoom(A)
    [] mode = "timed" -> nsub < TimedMsgs
    [] OTHER -> FALSE

(* the regimes in which the network loses or corrupts at most MaxLoss      *)
(* packets and the timer expires only once both channels are empty         *)
Calm == mode \in {"slow", "flood", "stream"}

MayLose ==
  /\ Calm => nloss < MaxLoss
  /\ mode = "reuse" => nloss < ReuseFaults
Lost(n) == IF Calm \/ mode = "reuse" THEN n + 1 ELSE n

(* a timeout that comes while packets are still on their way *)
Early == mode = "reuse" /\ (AtoB # <<>> \/ BtoA # <<>>)

(* the data packets that have reached B intact, kept in last *)
Got == IF last.op = "got" THEN last.got ELSE {}
Gets(packet, k) ==
  IF mode = "reuse" /\ k = 0 THEN [op |-> "got", got |-> Got \cup {packet}] ELSE last

Cap == IF mode \in {"flood", "stream", "reuse"} THEN FloodChan ELSE MaxChan
tolayer3(ch, out) == Enter(ch, out, Cap)

(* the ticks since each packet of out was sent are 0 again *)
Sent(ck, out) ==
  IF mode = "timed"
  THEN [s \in 0 .. (SEQSPACE - 1) |->
          IF \E i \in 1 .. Len(out) : out[i].seqnum = s THEN 0 ELSE ck[s]]
  ELSE ck

(* layer 5 hands the next message to A *)
Output ==
  /\ MayOutput
  /\ LET r == A_output(variant, A, timer, MsgData(nsub))
     IN /\ A' = r.st
        /\ timer' = r.tm
        /\ AtoB' = tolayer3(AtoB, r.out)
        /\ clock' = Sent(clock, r.out)
        /\ unacked' = unacked + Len(r.out)
        /\ sent' = sent \o r.out
        /\ accepted' = IF Takes(variant, A) THEN Append(accepted, MsgData(nsub))
                       ELSE accepted
  /\ nsub' = nsub + 1
  /\ UNCHANGED <<variant, mode, B, BtoA, nloss, delivered, last>>

(* the packet at the head of the channel to B arrives; k = 0 intact, else  *)
(* corrupted the k-th way                                                  *)
ArriveAtB(k) ==
  /\ EndToEnd
  /\ AtoB # <<>>
  /\ k # 0 => MayLose
  /\ LET packet == IF k = 0 THEN Head(AtoB) ELSE Corrupt(Head(AtoB), k)
         r == B_input(variant, B, packet)
     IN /\ B' = r.st
        /\ BtoA' = tolayer3(BtoA, r.out)
        /\ delivered' = delivered \o r.deliv
        /\ last' = Gets(Head(AtoB), k)
  /\ AtoB' = Tail(AtoB)
  /\ nloss' = IF k = 0 THEN nloss ELSE Lost(nloss)
  /\ UNCHANGED <<variant, mode, A, timer, nsub, unacked, accepted, sent, clock>>

DeliverToB == ArriveAtB(0)
CorruptToB == \E k \in 1 .. 3 : ArriveAtB(k)

ArriveAtA(k) ==
  /\ EndToEnd
  /\ BtoA # <<>>
  /\ k # 0 => MayLose
  /\ LET packet == IF k = 0 THEN Head(BtoA) ELSE Corrupt(Head(BtoA), k)
         r == A_input(variant, A, timer, packet)
     IN /\ A' = r.st
        /\ timer' = r.tm
        /\ AtoB' = tolayer3(AtoB, r.out)
        /\ clock' = Sent(clock, r.out)
        /\ unacked' = unacked + Len(r.out) - r.cnt.new_ACKs
        /\ sent' = sent \o r.out
  /\ BtoA' = Tail(BtoA)
  /\ nloss' = IF k = 0 THEN nloss ELSE Lost(nloss)
  /\ UNCHANGED <<variant, mode, B, nsub, accepted, delivered, last>>

DeliverToA == ArriveAtA(0)
CorruptToA == \E k \in 1 .. 3 : ArriveAtA(k)

LoseToB ==
  /\ EndToEnd
  /\ AtoB # <<>>
  /\ MayLose
  /\ AtoB' = Tail(AtoB)
  /\ nloss' = Lost(nloss)
  /\ UNCHANGED <<variant, mode, A, B, timer, BtoA, nsub, unacked, accepted, sent,
                 delivered, last, clock>>

LoseToA ==
  /\ EndToEnd
  /\ BtoA # <<>>
  /\ MayLose
  /\ BtoA' = Tail(BtoA)
  /\ nloss' = Lost(nloss)
  /\ UNCHANGED <<variant, mode, A, B, timer, AtoB, nsub, unacked, accepted, sent,
                 delivered, last, clock>>

(* A's timer event comes due: the emulator removes it and calls the handler *)
Timeout ==
  /\ EndToEnd
  /\ timer # TimerOff
  /\ mode = "timed" => timer = 0
  /\ Calm => (AtoB = <<>> /\ BtoA = <<>>)
  /\ Early => nloss < ReuseFaults
  /\ LET r == A_timerinterrupt(variant, A, TimerOff)
     IN /\ A' = r.st
        /\ timer' = r.tm
        /\ AtoB' = tolayer3(AtoB, r.out)
        /\ clock' = Sent(clock, r.out)
  /\ nloss' = IF Early THEN nloss + 1 ELSE nloss
  /\ UNCHANGED <<variant, mode, B, BtoA, nsub, unacked, accepted, sent, delivered, last>>

(* one tick of simulated time; a timer that is due fires before the next tick *)
Tick ==
  /\ mode = "timed"
  /\ timer # 0
  /\ AtoB = <<>> /\ BtoA = <<>>
  /\ timer' = IF timer = TimerOff THEN TimerOff ELSE timer - 1
  /\ clock' = [s \in 0 .. (SEQSPACE - 1) |-> IF clock[s] <= RTT THEN clock[s] + 1 ELSE clock[s]]
  /\ UNCHANGED <<variant, mode, A, B, AtoB, BtoA, nsub, nloss, unacked, accepted, sent,
                 delivered, last>>

(***************************************************************************)
(* The receiver alone (mode "recv"): B_input is called with any intact     *)
(* data packet, MaxFeed times, starting from the state B is in after the   *)
(* first n packets of a stream have arrived in order.  The packet with     *)
(* sequence number s carries DataOf(s).  last records the call, and in     *)
(* held the sequence numbers B holds after it: those that have arrived     *)
(* inside the receive window and are not among the packets delivered, the  *)
(* k-th delivery being that of sequence number k mod SEQSPACE.             *)
(***************************************************************************)
DataOf(seq) == Fill(97 + seq)
DataPkt(seq) == MakeDataPkt(seq, DataOf(seq))

RECURSIVE WarmB(_, _)
WarmB(v, n) ==
  IF n = 0 THEN B_init(v)
  ELSE B_input(v, WarmB(v, n - 1), DataPkt((n - 1) % SEQSPACE)).st

InitRecv(v) ==
  /\ variant = v
  /\ mode = "recv"
  /\ A = NoEntity
  /\ \E n \in 0 .. (SEQSPACE - 1) : B = WarmB(v, n)
  /\ timer = TimerOff
  /\ AtoB = <<>>
  /\ BtoA = <<>>
  /\ nsub = 0
  /\ nloss = 0
  /\ unacked = 0
  /\ accepted = <<>>
  /\ sent = <<>>
  /\ delivered = <<>>
  /\ last = NoCall
  /\ clock = NoClock

RcvBase(v, b) == IF v = "base" THEN b.B_windowbase ELSE b.rcv_base

Held(v, held, b, packet, deliv) ==
  LET base == RcvBase(v, b)
      got == IF (packet.seqnum - base + SEQSPACE) % SEQSPACE < WINDOWSIZE
             THEN held \cup {packet.seqnum} ELSE held
  IN got \ {(base + k) % SEQSPACE : k \in 0 .. (Len(deliv) - 1)}

FeedB ==
  /\ mode = "recv"
  /\ nsub < MaxFeed
  /\ \E seq \in 0 .. (SEQSPACE - 1) :
       \E r \in {B_input(variant, B, DataPkt(seq))} :
          /\ B' = r.st
          /\ last' = [op |-> "B_input", arg |-> DataPkt(seq), pre |-> B,
                      out |-> r.out, deliv |-> r.deliv, cnt |-> r.cnt,
                      held |-> Held(variant, IF last.op = "none" THEN {} ELSE last.held,
                                    B, DataPkt(seq), r.deliv)]
  /\ nsub' = nsub + 1
  /\ UNCHANGED <<variant, mode, A, timer, AtoB, BtoA, nloss, unacked, accepted, sent,
                 delivered, clock>>

(***************************************************************************)
(* The sender alone (mode "send"): A_output, A_input and A_timerinterrupt  *)
(* are called in any order.  A_output gets DataOf(A_nextseqnum); A_input   *)
(* gets any intact ACK packet that the variant's B_input can build: acknum *)
(* in 0..SEQSPACE-1, also NOTINUSE where B sends it, and in the SACK       *)
(* variant a SACK list of at most two sequence numbers.  unacked counts    *)
(* the packets sent and not yet counted as newly acknowledged.  A_output   *)
(* is called at most MaxBlocked times while the window is full.  In mode   *)
(* "backlog" the same calls are made, at most BacklogCalls of them (nloss  *)
(* counts them), from a sender that already holds a backlog of messages.   *)
(***************************************************************************)
SeqNums == 0 .. (SEQSPACE - 1)

SenderAlone == mode = "send" \/ (mode = "backlog" /\ nloss < BacklogCalls)
Called(n) == IF mode = "backlog" THEN n + 1 ELSE n

SackLists ==
  {NoSack} \cup {[count |-> 1, seqnums |-> <<s>>] : s \in SeqNums}
           \cup {[count |-> 2, seqnums |-> <<s, (s + 1) % SEQSPACE>>] : s \in SeqNums}

AckPkts(v) ==
  CASE v = "sack" ->
         {MakeAck_sack([B_nextseqnum |-> 0], a, k) : a \in {NOTINUSE} \cup SeqNums,
                                                      k \in SackLists}
    [] v = "timerseq" -> {MakeAck(0, a) : a \in {NOTINUSE} \cup SeqNums}
    [] OTHER -> {MakeAck(0, a) : a \in SeqNums}

InitSend(v) ==
  /\ variant = v
  /\ mode = "send"
  /\ A = A_init(v)
  /\ B = NoEntity
  /\ timer = TimerOff
  /\ AtoB = <<>>
  /\ BtoA = <<>>
  /\ nsub = 0
  /\ nloss = 0
  /\ unacked = 0
  /\ accepted = <<>>
  /\ sent = <<>>
  /\ delivered = <<>>
  /\ last = NoCall
  /\ clock = NoClock

CallOutput ==
  /\ SenderAlone
  /\ WindowHasRoom(A) \/ nsub < MaxBlocked
  /\ LET r == A_output(variant, A, timer, DataOf(A.A_nextseqnum))
     IN /\ A' = r.st
        /\ timer' = r.tm
        /\ unacked' = unacked + Len(r.out)
  /\ nsub' = IF WindowHasRoom(A) THEN nsub ELSE nsub + 1
  /\ nloss' = Called(nloss)
  /\ UNCHANGED <<variant, mode, B, AtoB, BtoA, accepted, sent, delivered, last, clock>>

CallInput ==
  /\ SenderAlone
  /\ \E packet \in AckPkts(variant) :
       LET r == A_input(variant, A, timer, packet)
       IN /\ A' = r.st
          /\ timer' = r.tm
          /\ unacked' = unacked + Len(r.out) - r.cnt.new_ACKs
  /\ nloss' = Called(nloss)
  /\ UNCHANGED <<variant, mode, B, AtoB, BtoA, nsub, accepted, sent, delivered, last,
                 clock>>

CallTimer ==
  /\ SenderAlone
  /\ timer # TimerOff
  /\ LET r == A_timerinterrupt(variant, A, TimerOff)
     IN /\ A' = r.st
        /\ timer' = r.tm
  /\ nloss' = Called(nloss)
  /\ UNCHANGED <<variant, mode, B, AtoB, BtoA, nsub, unacked, accepted, sent, delivered,
                 last, clock>>

Next ==
  \/ Output
  \/ DeliverToB
  \/ CorruptToB
  \/ DeliverToA
  \/ CorruptToA
  \/ LoseToB
  \/ LoseToA
  \/ Timeout

NextTimed == Next \/ Tick

Variants == {"base", "queue", "timerseq", "sack"}

Init == \E v \in Variants : InitOf(v, "burst")

Spec == Init /\ [][Next]_vars

InitSack == \E m \in {"burst", "slow"} : InitOf("sack", m)
SpecSack == InitSack /\ [][Next]_vars

IsPrefix(s, t) == Len(s) <= Len(t) /\ \A i \in 1 .. Len(s) : s[i] = t[i]

(* C1: SACK variant, end to end: the payloads handed to tolayer5 are at every *)
(* moment a prefix of the payloads of the accepted messages.                  *)
C1_DeliveredIsPrefix == variant = "sack" => IsPrefix(delivered, accepted)

InitQueue == InitOf("queue", "burst")
SpecQueue == InitQueue /\ [][Next]_vars

(* C2: SR-queue variant, end to end: what B hands to tolayer5 is always a  *)
(* prefix of the payloads of the messages A sent or queued, in submission  *)
(* order.                                                                  *)
C2_DeliveredIsPrefix == variant = "queue" => IsPrefix(delivered, accepted)

NextRecv == FeedB

SpecRecvTimerseq == InitRecv("timerseq") /\ [][NextRecv]_vars

(* the payloads an in-order receiver hands over when its base moves from   *)
(* base by n sequence numbers                                              *)
InOrderRun(base, n) == [j \in 1 .. n |-> DataOf((base + j - 1) % SEQSPACE)]

(* C3: SR-timerseq receiver: a B_input call hands to tolayer5 the payloads *)
(* of the packets rcv_base, rcv_base+1, ... in that order, each once, and  *)
(* rcv_base/expectedseqnum move on by exactly the number handed over.      *)
C3_InOrderOnce ==
  (variant = "timerseq" /\ last.op = "B_input") =>
    /\ Len(last.deliv) <= WINDOWSIZE
    /\ B.rcv_base = (last.pre.rcv_base + Len(last.deliv)) % SEQSPACE
    /\ B.expectedseqnum = B.rcv_base
    /\ last.deliv = InOrderRun(last.pre.rcv_base, Len(last.deliv))

NextSend == CallOutput \/ CallInput \/ CallTimer

InitSenders == \E v \in Variants : InitSend(v)
SpecSenders == InitSenders /\ [][NextSend]_vars

(* C4: in every variant 0 <= windowcount <= WINDOWSIZE, and the packets    *)
(* sent and not yet acknowledged are never more than WINDOWSIZE.           *)
C4_WindowBound ==
  mode = "send" =>
    /\ 0 <= A.windowcount /\ A.windowcount <= WINDOWSIZE
    /\ 0 <= unacked /\ unacked <= WINDOWSIZE

C4_WindowFull == mode = "send" /\ A.windowcount = WINDOWSIZE /\ unacked = WINDOWSIZE

SpecRecvBase == InitRecv("base") /\ [][NextRecv]_vars

(* (seqnum - base) mod SEQSPACE *)
OffsetFrom(base, seqnum) == (seqnum - base + SEQSPACE) % SEQSPACE

IsOldDuplicate(base, seqnum) ==
  OffsetFrom(base, seqnum) >= WINDOWSIZE /\ OffsetFrom(base, seqnum) < 2 * WINDOWSIZE

(* C5: SR-base, for every B_windowbase: an intact data packet whose seqnum  *)
(* is one of the WINDOWSIZE numbers just before B_windowbase makes B_input  *)
(* send one ACK with acknum = seqnum and buffer or deliver nothing.         *)
C5_OldDuplicateAcked ==
  (variant = "base" /\ last.op = "B_input"
     /\ IsOldDuplicate(last.pre.B_windowbase, last.arg.seqnum)) =>
    /\ Len(last.out) = 1
    /\ last.out[1].acknum = last.arg.seqnum
    /\ last.deliv = <<>>
    /\ B.recv_buffer = last.pre.recv_buffer
    /\ B.packet_received = last.pre.packet_received
    /\ B.B_windowbase = last.pre.B_windowbase

SpecRecvSack == InitRecv("sack") /\ [][NextRecv]_vars

(* C6: SACK variant, for every rcv_base: an intact data packet whose seqnum *)
(* is one of the WINDOWSIZE numbers just before rcv_base is answered with   *)
(* an ACK whose acknum is that seqnum, never NOTINUSE, and is neither       *)
(* rebuffered nor redelivered.                                              *)
C6_OldDuplicateAcked ==
  (variant = "sack" /\ last.op = "B_input"
     /\ IsOldDuplicate(last.pre.rcv_base, last.arg.seqnum)) =>
    /\ Len(last.out) = 1
    /\ last.out[1].acknum = last.arg.seqnum
    /\ last.deliv = <<>>
    /\ B.rcv_buffer = last.pre.rcv_buffer
    /\ B.received = last.pre.received
    /\ B.rcv_base = last.pre.rcv_base

(***************************************************************************)
(* A fair network and a fair timer: a channel that holds a packet again    *)
(* and again delivers its head intact again and again, in both directions, *)
(* and a running timer eventually expires.  The application is under no    *)
(* obligation to submit.  In the calm regimes the network loses or         *)
(* corrupts at most MaxLoss packets in all, so every packet that is        *)
(* retransmitted for ever is delivered intact for ever.                    *)
(***************************************************************************)
Fairness == SF_vars(DeliverToB) /\ SF_vars(DeliverToA) /\ WF_vars(Timeout)

AllDone == delivered = accepted /\ A.windowcount = 0 /\ timer = TimerOff

InitBase == InitOf("base", "flood")
SpecBaseFair == InitBase /\ [][Next]_vars /\ Fairness

(* C7: SR-base under a fair network and timer: whatever has been accepted  *)
(* is eventually all delivered, with windowcount back at 0 and the timer   *)
(* stopped; the sender does not retransmit a packet forever.               *)
C7_Progress == []<>AllDone

InitSackSlow == InitOf("sack", "slow")
SpecSackFair == InitSackSlow /\ [][Next]_vars /\ Fairness

AllDeliveredAndAcked == Len(delivered) = Len(accepted) /\ A.windowcount = 0

(* C8: SACK variant under a fair network and timer: every accepted message *)
(* is eventually delivered to B's application and acknowledged at A, so    *)
(* the window slides past every outstanding packet, also after the         *)
(* sequence numbers have wrapped around SEQSPACE.                          *)
C8_Progress == []<>AllDeliveredAndAcked

InitSackTimed == InitOf("sack", "timed")
SpecSackTimed == InitSackTimed /\ [][NextTimed]_vars

(* the packet with sequence number s is in the send window, unacknowledged *)
Outstanding_sack(s) ==
  \E i \in 0 .. (A.windowcount - 1) :
    LET idx == (A.windowfirst + i) % WINDOWSIZE
    IN A.buffer[idx].seqnum = s /\ ~A.acked[idx]

(* C9: SACK variant, time in ticks: a packet that is outstanding at the     *)
(* sender, with every copy of it and every ACK for it lost (both channels  *)
(* empty), is sent again within RTT ticks of its previous transmission,    *)
(* whatever other ACKs arrived in between, for as long as it is not        *)
(* acknowledged: it is never more than RTT ticks old.                      *)
C9_ResentWithinRTT ==
  (variant = "sack" /\ mode = "timed" /\ AtoB = <<>> /\ BtoA = <<>>) =>
    \A s \in SeqNums : Outstanding_sack(s) => clock[s] <= RTT

InitQueueFlood == InitOf("queue", "flood")
SpecQueueFair == InitQueueFlood /\ [][Next]_vars /\ Fairness

(* the k-th message accepted is the k-th new packet, numbered in that order *)
SentInOrder ==
  /\ Len(sent) <= Len(accepted)
  /\ \A k \in 1 .. Len(sent) : sent[k] = MakeDataPkt((k - 1) % SEQSPACE, accepted[k])

(* what is still to be sent as a new packet waits in the queue, in order *)
QueueHoldsRest ==
  /\ A.queue_size = Len(accepted) - Len(sent)
  /\ \A j \in 1 .. A.queue_size :
       A.message_queue[(A.queue_front + j - 1) % MAX_QUEUE_SIZE] = accepted[Len(sent) + j]

(* C10: SR-queue: the messages enqueued while the window was full are sent  *)
(* in FIFO order, each exactly once as a new packet, the sequence numbers  *)
(* of all new packets follow submission order, and under a fair network    *)
(* every enqueued message is eventually sent.                              *)
C10_QueueDrains ==
  /\ [](variant = "queue" => SentInOrder /\ QueueHoldsRest)
  /\ []<>(A.queue_size = 0 /\ Len(sent) = Len(accepted))

C10_Dequeued ==
  /\ variant = "queue"
  /\ Len(accepted) = FloodMsgs
  /\ Len(sent) = Len(accepted)
  /\ A.queue_front = FloodMsgs - WINDOWSIZE

(***************************************************************************)
(* The receiver alone on a noisy line (mode "noisy"): B_input is called    *)
(* NoisyFeed times with any data packet, intact (k = 0) or corrupted by    *)
(* the emulator the k-th way, from the states of InitRecv.  last.damaged   *)
(* tells whether the emulator corrupted the packet of the call.            *)
(***************************************************************************)
InitRecvNoisy(v) ==
  /\ variant = v
  /\ mode = "noisy"
  /\ A = NoEntity
  /\ \E n \in 0 .. (SEQSPACE - 1) : B = WarmB(v, n)
  /\ timer = TimerOff
  /\ AtoB = <<>>
  /\ BtoA = <<>>
  /\ nsub = 0
  /\ nloss = 0
  /\ unacked = 0
  /\ accepted = <<>>
  /\ sent = <<>>
  /\ delivered = <<>>
  /\ last = NoCall
  /\ clock = NoClock

FeedNoisyB ==
  /\ mode = "noisy"
  /\ nsub < NoisyFeed
  /\ \E seq \in 0 .. (SEQSPACE - 1), k \in 0 .. 3 :
       LET packet == IF k = 0 THEN DataPkt(seq) ELSE Corrupt(DataPkt(seq), k)
           r == B_input(variant, B, packet)
       IN /\ B' = r.st
          /\ last' = [op |-> "B_input", arg |-> packet, pre |-> B, out |-> r.out,
                      deliv |-> r.deliv, cnt |-> r.cnt, damaged |-> k # 0]
  /\ nsub' = nsub + 1
  /\ UNCHANGED <<variant, mode, A, timer, AtoB, BtoA, nloss, unacked, accepted, sent,
                 delivered, clock>>

NextRecvNoisy == FeedNoisyB

DamagedAtB == mode = "noisy" /\ last.op = "B_input" /\ last.damaged

SpecRecvNoisyAck ==
  (\E v \in {"sack", "timerseq"} : InitRecvNoisy(v)) /\ [][NextRecvNoisy]_vars

HoldsOutOfOrder(b) == \E i \in Slots : b.received[i]

SpecRecvNoisyDrop ==
  (\E v \in {"base", "queue"} : InitRecvNoisy(v)) /\ [][NextRecvNoisy]_vars

(* C12: SR-base and SR-queue: on a corrupted packet B_input calls neither  *)
(* tolayer3 nor tolayer5 and leaves the window base, the received flags,   *)
(* the receive buffer and B_nextseqnum unchanged.                          *)
C12_CorruptedIgnored ==
  (DamagedAtB /\ variant \in {"base", "queue"}) =>
    /\ last.out = <<>>
    /\ last.deliv = <<>>
    /\ B = last.pre

C12_CorruptedWhileBuffering ==
  /\ DamagedAtB
  /\ variant = "queue"
  /\ \E i \in Slots : B.received[i]
  /\ last.arg.payload # DataOf(last.arg.seqnum)

(***************************************************************************)
(* What one more call of a handler would do in a state the sender alone    *)
(* can reach (SpecSenders): the claims below hold of every call A_input    *)
(* can receive there.                                                      *)
(***************************************************************************)
(* the ACK packets of AckPkts as the emulator corrupts them *)
CorruptAcks(v) == {Corrupt(p, k) : p \in AckPkts(v), k \in 1 .. 3}

(* C13: in every variant A_input on a corrupted packet changes nothing:    *)
(* the sender's statics (window, flags, windowcount, A_nextseqnum, timer   *)
(* bookkeeping, queue) and the emulator's timer stay as they are, no timer *)
(* call is made, no counter moves and no packet is sent.                   *)
C13_CorruptedAckIgnored ==
  mode = "send" =>
    \A p \in CorruptAcks(variant) :
      A_input(variant, A, timer, p) = Res(A, timer, <<>>, <<>>, <<>>, NoCnt)

C13_CorruptedAckOnFullWindow ==
  /\ mode = "send"
  /\ variant = "queue"
  /\ A.windowcount = WINDOWSIZE
  /\ A.queue_size > 0
  /\ timer # TimerOff
  /\ \E p \in CorruptAcks(variant) :
       /\ IsCorrupted(p)
       /\ p.seqnum = 0 /\ p.acknum = 999999
       /\ A_input(variant, A, timer, p).st = A

(* the sequence numbers that are outstanding at the sender and not yet     *)
(* acknowledged: an ACK for one of them is a new ACK                       *)
AwaitedSeqs(v, a) ==
  IF v = "base"
  THEN {s \in SeqNums : /\ \E i \in 0 .. (a.windowcount - 1) :
                             s = (a.A_windowbase + i) % SEQSPACE
                        /\ a.packet_timer[s % WINDOWSIZE] = 0}
  ELSE {a.buffer[(a.windowfirst + i) % WINDOWSIZE].seqnum :
          i \in {j \in 0 .. (a.windowcount - 1) : ~a.acked[(a.windowfirst + j) % WINDOWSIZE]}}

SackVals == {0, 9, 10, 99}

RECURSIVE SeqsOfLen(_)
SeqsOfLen(n) ==
  IF n = 0 THEN {<<>>} ELSE {Append(q, x) : q \in SeqsOfLen(n - 1), x \in SackVals}

SackInputs == {[count |-> n, seqnums |-> q] : n \in 0 .. MAX_SACK, q \in SeqsOfLen(MAX_SACK)}

(* the count entries of a seqnums array that DecodeSACK and EncodeSACK use *)
FirstEntries(sack) == [i \in 1 .. sack.count |-> sack.seqnums[i]]

InitPure(m, inputs) ==
  /\ variant = "sack"
  /\ mode = m
  /\ A = NoEntity
  /\ B = NoEntity
  /\ timer = TimerOff
  /\ AtoB = <<>>
  /\ BtoA = <<>>
  /\ nsub = 0
  /\ nloss = 0
  /\ unacked = 0
  /\ accepted = <<>>
  /\ sent = <<>>
  /\ delivered = <<>>
  /\ \E x \in inputs : last = [op |-> "input", arg |-> x]
  /\ clock = NoClock

PureVars == <<variant, mode, A, B, timer, AtoB, BtoA, nsub, nloss, unacked, accepted, sent,
              delivered, clock>>

CallEncodeSACK ==
  /\ mode = "codec"
  /\ last.op = "input"
  /\ last' = [op |-> "EncodeSACK", arg |-> last.arg,
              packet |-> Pkt(0, NOTINUSE, 0, EncodeSACK(last.arg))]
  /\ UNCHANGED PureVars

CallDecodeSACK ==
  /\ mode = "codec"
  /\ last.op = "EncodeSACK"
  /\ last' = [op |-> "DecodeSACK", arg |-> last.arg, packet |-> last.packet,
              sack |-> DecodeSACK(last.packet)]
  /\ UNCHANGED PureVars

SpecCodec == InitPure("codec", SackInputs) /\ [][CallEncodeSACK \/ CallDecodeSACK]_vars

(* C15: for every sack_info with count in 0..MAX_SACK and sequence numbers *)
(* in 0..99, DecodeSACK of the packet EncodeSACK wrote returns the same    *)
(* count and the same first count sequence numbers in the same order.      *)
C15_SackRoundTrip ==
  (mode = "codec" /\ last.op = "DecodeSACK") =>
    /\ last.sack.count = last.arg.count
    /\ last.sack.seqnums = FirstEntries(last.arg)

C15_FullListDecoded ==
  /\ mode = "codec"
  /\ last.op = "DecodeSACK"
  /\ last.arg.count = MAX_SACK
  /\ last.sack.seqnums = <<99, 10, 9, 0, 10, 99>>

(***************************************************************************)
(* DecodeSACK on any payload (mode "decode"): the payload EncodeSACK wrote *)
(* for a list of n numbers, with up to two of its bytes replaced.  A byte  *)
(* is a char: 255 and -1 are the two readings of 0xFF.                     *)
(***************************************************************************)
ByteVals == {-1, 47, 48, 54, 55, 57, 58, 90, 255}

SackPayloads == {EncodeSACK([count |-> n, seqnums |-> <<10, 99, 9, 0, 10, 99>>]) :
                   n \in 0 .. MAX_SACK}

DecodeInputs ==
  {Pkt(0, NOTINUSE, 0, [[p EXCEPT ![i] = x] EXCEPT ![j] = y]) :
     p \in SackPayloads, i \in Bytes, j \in Bytes, x \in ByteVals, y \in ByteVals}
  \cup {Pkt(0, NOTINUSE, 0, p) : p \in SackPayloads}

CallDecodeAny ==
  /\ mode = "decode"
  /\ last.op = "input"
  /\ last' = [op |-> "DecodeSACK", arg |-> last.arg, sack |-> DecodeSACK(last.arg)]
  /\ UNCHANGED PureVars

SpecDecode == InitPure("decode", DecodeInputs) /\ [][CallDecodeAny]_vars

IsDigit(b) == b >= ASCII0 /\ b <= ASCII0 + 9

(* C16: DecodeSACK fails safe on every payload: it returns count = 0 when  *)
(* payload[0] - '0' is outside 0..MAX_SACK or one of the 2*count bytes     *)
(* after it is not an ASCII digit; otherwise it returns that count, within *)
(* 0..MAX_SACK, with every sequence number in 0..99.  The bytes it reads   *)
(* are payload[0..2*count], all inside the payload (a read outside the     *)
(* payload has no value in the model and would stop the evaluation).       *)
C16_DecodeFailsSafe ==
  (mode = "decode" /\ last.op = "DecodeSACK") =>
    LET p == last.arg.payload
        c == p[0] - ASCII0
    IN IF c < 0 \/ c > MAX_SACK \/ \E j \in 1 .. (2 * c) : ~IsDigit(p[j])
       THEN last.sack.count = 0
       ELSE /\ last.sack.count = c
            /\ 2 * c < PAYLOADLEN
            /\ DOMAIN last.sack.seqnums = 1 .. c
            /\ \A i \in 1 .. c : last.sack.seqnums[i] >= 0 /\ last.sack.seqnums[i] <= 99

C16_BadDigitRejected ==
  /\ mode = "decode"
  /\ last.op = "DecodeSACK"
  /\ last.arg.payload[0] = ASCII0 + MAX_SACK
  /\ last.arg.payload[2 * MAX_SACK] = 58
  /\ \A j \in 1 .. (2 * MAX_SACK - 1) : IsDigit(last.arg.payload[j])
  /\ last.sack.count = 0

(***************************************************************************)
(* The checksum on its own (mode "checksum"): a packet with a correct      *)
(* checksum field, one of whose fields (seqnum, acknum, or payload byte    *)
(* at) is then given another value.                                        *)
(***************************************************************************)
SummedPkts ==
  {DataPkt(seq) : seq \in SeqNums}
  \cup {MakeAck(b, a) : b \in 0 .. 1, a \in {NOTINUSE, 0, 5, SEQSPACE - 1}}
  \cup {MakeAck_sack([B_nextseqnum |-> 1], 3, k) : k \in SackLists}

HeaderVals == {NOTINUSE, 0, 1, SEQSPACE - 1, 999999}
PayloadVals == {0, 48, 90, 97, 122, 255}

ChecksumInputs ==
  {[packet |-> p, field |-> f, at |-> 0, val |-> v] :
     p \in SummedPkts, f \in {"seqnum", "acknum"}, v \in HeaderVals}
  \cup {[packet |-> p, field |-> "payload", at |-> i, val |-> v] :
          p \in SummedPkts, i \in Bytes, v \in PayloadVals}

(* the packet of x with the one field replaced *)
Replaced(x) ==
  CASE x.field = "seqnum" -> [x.packet EXCEPT !.seqnum = x.val]
    [] x.field = "acknum" -> [x.packet EXCEPT !.acknum = x.val]
    [] OTHER -> [x.packet EXCEPT !.payload[x.at] = x.val]

CallIsCorrupted ==
  /\ mode = "checksum"
  /\ last.op = "input"
  /\ last' = [op |-> "IsCorrupted", arg |-> last.arg, changed |-> Replaced(last.arg),
              sums |-> <<ComputeChecksum(last.arg.packet),
                         ComputeChecksum(Replaced(last.arg))>>,
              results |-> <<IsCorrupted(last.arg.packet), IsCorrupted(Replaced(last.arg))>>]
  /\ UNCHANGED PureVars

SpecChecksum == InitPure("checksum", ChecksumInputs) /\ [][CallIsCorrupted]_vars

(* C17: for a packet whose checksum field equals ComputeChecksum of it,    *)
(* giving seqnum, acknum or one payload byte a different value changes     *)
(* ComputeChecksum's result: IsCorrupted is false on the packet and true   *)
(* on the changed one.                                                     *)
C17_ChecksumSensitive ==
  (mode = "checksum" /\ last.op = "IsCorrupted") =>
    /\ last.arg.packet.checksum = last.sums[1]
    /\ last.results[1] = FALSE
    /\ last.changed # last.arg.packet =>
         /\ last.sums[2] # last.sums[1]
         /\ last.results[2] = TRUE

C17_LastByteChanged ==
  /\ mode = "checksum"
  /\ last.op = "IsCorrupted"
  /\ last.arg.field = "payload"
  /\ last.arg.at = PAYLOADLEN - 1
  /\ last.changed.payload[PAYLOADLEN - 1] # last.arg.packet.payload[PAYLOADLEN - 1]
  /\ last.results = <<FALSE, TRUE>>

(***************************************************************************)
(* SR-queue sender, a scripted run (mode "script"; nsub is the step):      *)
(* ScriptMsgs calls of A_output, each with one of two messages; then an    *)
(* intact ACK 0; then a corrupted ACK 1; then the timer event.             *)
(***************************************************************************)
ScriptMsgs == WINDOWSIZE + 2

InitScript ==
  /\ variant = "queue"
  /\ mode = "script"
  /\ A = A_init("queue")
  /\ B = NoEntity
  /\ timer = TimerOff
  /\ AtoB = <<>>
  /\ BtoA = <<>>
  /\ nsub = 0
  /\ nloss = 0
  /\ unacked = 0
  /\ accepted = <<>>
  /\ sent = <<>>
  /\ delivered = <<>>
  /\ last = NoCall
  /\ clock = NoClock

ScriptOutput ==
  /\ mode = "script"
  /\ nsub < ScriptMsgs
  /\ \E message \in {Fill(97 + nsub), Fill(65 + nsub)} :
       LET r == A_output(variant, A, timer, message)
       IN /\ A' = r.st
          /\ timer' = r.tm
          /\ sent' = sent \o r.out
          /\ accepted' = Append(accepted, message)
          /\ last' = [op |-> "A_output", pre |-> A, tmpre |-> timer, out |-> r.out,
                      cnt |-> r.cnt]
  /\ nsub' = nsub + 1
  /\ UNCHANGED <<variant, mode, B, AtoB, BtoA, nloss, unacked, delivered, clock>>

ScriptInput(step, packets) ==
  /\ mode = "script"
  /\ nsub = step
  /\ \E packet \in packets :
       LET r == A_input(variant, A, timer, packet)
       IN /\ A' = r.st
          /\ timer' = r.tm
          /\ sent' = sent \o r.out
          /\ last' = [op |-> "A_input", pre |-> A, tmpre |-> timer, out |-> r.out,
                      cnt |-> r.cnt]
  /\ nsub' = nsub + 1
  /\ UNCHANGED <<variant, mode, B, AtoB, BtoA, nloss, unacked, accepted, delivered, clock>>

ScriptAck == ScriptInput(ScriptMsgs, {MakeAck(1, 0)})
ScriptCorruptAck == ScriptInput(ScriptMsgs + 1, {Corrupt(MakeAck(0, 1), k) : k \in 1 .. 3})

ScriptTimer ==
  /\ mode = "script"
  /\ nsub = ScriptMsgs + 2
  /\ timer # TimerOff
  /\ LET r == A_timerinterrupt(variant, A, TimerOff)
     IN /\ A' = r.st
        /\ timer' = r.tm
        /\ last' = [op |-> "A_timerinterrupt", pre |-> A, tmpre |-> timer, out |-> r.out,
                    cnt |-> r.cnt]
  /\ nsub' = nsub + 1
  /\ UNCHANGED <<variant, mode, B, AtoB, BtoA, nloss, unacked, accepted, sent, delivered,
                 clock>>

NextScript == ScriptOutput \/ ScriptAck \/ ScriptCorruptAck \/ ScriptTimer

SpecScript == InitScript /\ [][NextScript]_vars

(* the messages waiting in the outbound queue, oldest first *)
Queued(a) ==
  [j \in 1 .. a.queue_size |-> a.message_queue[(a.queue_front + j - 1) % MAX_QUEUE_SIZE]]

(* the sequence numbers of the send window, oldest first *)
WindowSeqs(a) ==
  [j \in 1 .. a.windowcount |-> a.buffer[(a.windowfirst + j - 1) % WINDOWSIZE].seqnum]

(* C18: SR-queue, WINDOWSIZE 6, SEQSPACE 12.  After A_init and A_output of *)
(* m0..m7 exactly m0..m5 have been transmitted, with seqnums 0..5, and m6, *)
(* m7 are queued in that order.  An intact ACK 0 then slides the window to *)
(* start at seq 1 and transmits m6 with seqnum 6; m7 stays queued.  A      *)
(* corrupted ACK for seq 1 then changes no state.  A timer expiry next     *)
(* retransmits exactly the packet with seqnum 1 and adds exactly 1 to      *)
(* packets_resent.                                                         *)
C18_Scenario ==
  mode = "script" =>
    /\ nsub = ScriptMsgs =>
         /\ sent = [k \in 1 .. WINDOWSIZE |-> MakeDataPkt(k - 1, accepted[k])]
         /\ WindowSeqs(A) = <<0, 1, 2, 3, 4, 5>>
         /\ Queued(A) = <<accepted[WINDOWSIZE + 1], accepted[WINDOWSIZE + 2]>>
    /\ nsub = ScriptMsgs + 1 =>
         /\ WindowSeqs(A) = <<1, 2, 3, 4, 5, 6>>
         /\ last.out = <<MakeDataPkt(6, accepted[WINDOWSIZE + 1])>>
         /\ Queued(A) = <<accepted[WINDOWSIZE + 2]>>
    /\ nsub = ScriptMsgs + 2 =>
         /\ A = last.pre
         /\ timer = last.tmpre
         /\ last.out = <<>>
         /\ last.cnt = NoCnt
    /\ nsub = ScriptMsgs + 3 =>
         /\ last.out = <<MakeDataPkt(1, accepted[2])>>
         /\ last.cnt = [NoCnt EXCEPT !.packets_resent = 1]

C18_ScenarioDone ==
  /\ mode = "script"
  /\ nsub = ScriptMsgs + 3
  /\ last.op = "A_timerinterrupt"
  /\ Len(last.out) = 1
  /\ last.out[1].seqnum = 1

(* the handler called starttimer and found the timer running *)
Restarts(r) == \E c \in 1 .. Len(r.calls) : r.calls[c] = <<"starttimer", TRUE>>

(* C19: in every variant the sender never calls starttimer while A's timer *)
(* is running: in every state the sender can reach, whichever handler is   *)
(* called next (A_output, A_input with any ACK, intact or corrupted, or    *)
(* A_timerinterrupt once the timer has expired), each starttimer it makes  *)
(* finds the timer expired, stopped or never started.                      *)
C19_NoRestartOfRunningTimer ==
  mode = "send" =>
    /\ ~Restarts(A_output(variant, A, timer, DataOf(A.A_nextseqnum)))
    /\ \A p \in AckPkts(variant) \cup CorruptAcks(variant) :
         ~Restarts(A_input(variant, A, timer, p))
    /\ timer # TimerOff => ~Restarts(A_timerinterrupt(variant, A, TimerOff))

(* the timer is running and an ACK makes A_input stop it and start it again *)
C19_StoppedThenStarted ==
  /\ mode = "send"
  /\ variant = "sack"
  /\ timer # TimerOff
  /\ A.windowcount >= 2
  /\ \E p \in AckPkts(variant) :
       A_input(variant, A, timer, p).calls = <<<<"stoptimer", TRUE>>, <<"starttimer", FALSE>>>>

SpecSendSack == InitSend("sack") /\ [][NextSend]_vars

(* the oldest outstanding packet not yet acknowledged: the one the running *)
(* timer is for                                                            *)
OldestAwaited(a) ==
  LET Unacked == [idx \in Slots |-> ~a.acked[idx]]
      idx == ScanWindow(Unacked, a.windowfirst, a.windowcount, 0)
  IN IF idx = -1 THEN NOTINUSE ELSE a.buffer[idx].seqnum

(* the outstanding packets an ACK packet newly acknowledges, by its acknum *)
(* or by an entry of its SACK list                                         *)
NewlyAcked(a, p) ==
  LET sack == DecodeSACK(p)
  IN ({p.acknum} \cup {sack.seqnums[i] : i \in 1 .. sack.count}) \cap AwaitedSeqs("sack", a)

(* C20: SACK variant: A_input stops (and then re-arms) the running timer   *)
(* only when a packet it newly acknowledges, by the primary acknum or by a *)
(* SACK entry, is the packet the timer is for, the oldest unacknowledged   *)
(* one; a new acknowledgment of other outstanding packets only makes no    *)
(* timer call and leaves the timer as it is.                               *)
C20_TimerKeptForOthers ==
  (mode = "send" /\ variant = "sack" /\ timer # TimerOff) =>
    \A p \in AckPkts(variant) :
      (NewlyAcked(A, p) # {} /\ OldestAwaited(A) \notin NewlyAcked(A, p)) =>
        /\ A_input(variant, A, timer, p).calls = <<>>
        /\ A_input(variant, A, timer, p).tm = timer

(***************************************************************************)
(* SR-base sender: the slot the timer is for after a new ACK               *)
(***************************************************************************)
(* the slot of the oldest unacknowledged packet in window order: of the    *)
(* windowcount packets from A_windowbase on, the one with the smallest     *)
(* offset whose flag is 0, stored at slot seqnum % WINDOWSIZE; -1 when     *)
(* every packet is acknowledged                                            *)
OldestInWindow_base(a) ==
  LET Offs == {k \in 0 .. (a.windowcount - 1) :
                 a.packet_timer[(a.A_windowbase + k) % WINDOWSIZE] = 0}
  IN IF Offs = {} THEN -1
     ELSE (a.A_windowbase + (CHOOSE k \in Offs : \A j \in Offs : k <= j)) % WINDOWSIZE

(* C21: SR-base: whenever A_input has processed a new ACK and packets      *)
(* remain outstanding, oldest_unacked is the slot of the oldest            *)
(* unacknowledged packet in window order (smallest (seqnum - A_windowbase) *)
(* mod SEQSPACE), also when the window wraps round the end of the buffer   *)
(* array, so that the next timeout retransmits that packet.                *)
C21_OldestInWindowOrder ==
  (mode = "send" /\ variant = "base") =>
    \A p \in AckPkts(variant) :
      LET r == A_input(variant, A, timer, p)
      IN (r.cnt.new_ACKs = 1 /\ r.st.windowcount > 0) =>
           /\ r.st.oldest_unacked = OldestInWindow_base(r.st)
           /\ A_timerinterrupt(variant, r.st, TimerOff).out =
                <<r.st.buffer[OldestInWindow_base(r.st)]>>

(***************************************************************************)
(* SR-queue sender: the packet the timer is for                            *)
(***************************************************************************)
(* the slots of the current window: windowcount slots from windowfirst on *)
WindowSlots(a) == {(a.windowfirst + i) % WINDOWSIZE : i \in 0 .. (a.windowcount - 1)}

(* the slots of the current window whose packet is not yet acknowledged *)
UnackedSlots(a) == {idx \in WindowSlots(a) : ~a.acked[idx]}

(* C22: SR-queue: every packet A_timerinterrupt passes to tolayer3 is, at  *)
(* that moment, stored in one of the windowcount slots of the current      *)
(* window and not yet acknowledged; and after A_timerinterrupt returns     *)
(* with windowcount > 0, timer_for_pkt indexes a slot of the current       *)
(* window that holds an unacknowledged packet, never a free or stale slot. *)
C22_TimerForUnackedInWindow ==
  (mode = "send" /\ variant = "queue" /\ timer # TimerOff) =>
    LET r == A_timerinterrupt(variant, A, TimerOff)
    IN /\ \A i \in 1 .. Len(r.out) :
            \E idx \in UnackedSlots(A) : r.out[i] = A.buffer[idx]
       /\ r.st.windowcount > 0 => r.st.timer_for_pkt \in UnackedSlots(r.st)

(***************************************************************************)
(* The SR-queue sender alone with a backlog (mode "backlog"): it starts in *)
(* the state A is in after layer 5 has handed it n messages                *)
(* in a row with no ACK and no timeout in between: at most BacklogGap more *)
(* than fill the window, or at most BacklogGap fewer than fill the window  *)
(* and the queue.                                                          *)
(***************************************************************************)
RECURSIVE WarmA(_)
WarmA(n) ==
  IF n = 0 THEN A_init_queue
  ELSE CHOOSE st \in {A_output_queue(a, TimerOff, MsgData(n - 1)).st : a \in {WarmA(n - 1)}} :
         TRUE

InitBacklog ==
  /\ variant = "queue"
  /\ mode = "backlog"
  /\ \E n \in (0 .. (WINDOWSIZE + BacklogGap)) \cup
              ((WINDOWSIZE + MAX_QUEUE_SIZE - BacklogGap) .. (WINDOWSIZE + MAX_QUEUE_SIZE)) :
       /\ A = WarmA(n)
       /\ timer = IF n = 0 THEN TimerOff ELSE RTT
       /\ unacked = IF n < WINDOWSIZE THEN n ELSE WINDOWSIZE
  /\ B = NoEntity
  /\ AtoB = <<>>
  /\ BtoA = <<>>
  /\ nsub = 0
  /\ nloss = 0
  /\ accepted = <<>>
  /\ sent = <<>>
  /\ delivered = <<>>
  /\ last = NoCall
  /\ clock = NoClock

SpecBacklog == InitBacklog /\ [][NextSend]_vars

(* C23: SR-queue: 0 <= queue_size <= MAX_QUEUE_SIZE always; A_output with  *)
(* the window full and queue_size = MAX_QUEUE_SIZE drops the message: the  *)
(* queue contents, queue_front, queue_rear, the window and the timer are   *)
(* unchanged, no packet is sent and only window_full is incremented; with  *)
(* the window full and queue_size < MAX_QUEUE_SIZE the message is appended *)
(* at the rear and nothing is sent.                                        *)
C23_QueueBounded ==
  (mode \in {"send", "backlog"} /\ variant = "queue") =>
    /\ A.queue_size >= 0 /\ A.queue_size <= MAX_QUEUE_SIZE
    /\ A.windowcount = WINDOWSIZE =>
         \A message \in {DataOf(A.A_nextseqnum), Fill(90)} :
           A_output(variant, A, timer, message) =
             Res(IF A.queue_size = MAX_QUEUE_SIZE THEN A
                 ELSE [A EXCEPT !.message_queue[A.queue_rear] = message,
                                !.queue_rear = (A.queue_rear + 1) % MAX_QUEUE_SIZE,
                                !.queue_size = A.queue_size + 1],
                 timer, <<>>, <<>>, <<>>, [NoCnt EXCEPT !.window_full = 1])

(* the queue is full, has wrapped round the end of message_queue, and the  *)
(* window is full: the next message is dropped                             *)
C23_FullQueueWrapped ==
  /\ mode = "backlog"
  /\ variant = "queue"
  /\ A.windowcount = WINDOWSIZE
  /\ A.queue_size = MAX_QUEUE_SIZE
  /\ A.queue_front = A.queue_rear
  /\ A.queue_front > 0
  /\ A_output(variant, A, timer, Fill(90)).st = A
  /\ A_output(variant, A, timer, Fill(90)).out = <<>>

(* how many messages a call took off the queue: the steps queue_front made *)
Dequeued(a, st) == (st.queue_front - a.queue_front + MAX_QUEUE_SIZE) % MAX_QUEUE_SIZE

(* how many messages a call put on the queue: the steps queue_rear made *)
Enqueued(a, st) == (st.queue_rear - a.queue_rear + MAX_QUEUE_SIZE) % MAX_QUEUE_SIZE

(* the window as A_input's slide leaves it when the ACK is a new one for   *)
(* the first packet of the window                                          *)
Slid(a) == SlideWindow_queue([a EXCEPT !.acked[a.windowfirst] = TRUE])

(* C24: SR-queue: a message is enqueued only in a state where windowcount  *)
(* = WINDOWSIZE (so a non-empty queue goes with a full window); a message  *)
(* is dequeued only inside A_input, with windowcount < WINDOWSIZE because  *)
(* that same call has just slid the window; and the dequeuing repeats      *)
(* until the queue is empty or windowcount = WINDOWSIZE.                   *)
C24_QueueDiscipline ==
  (mode \in {"send", "backlog"} /\ variant = "queue") =>
    /\ A.queue_size > 0 => A.windowcount = WINDOWSIZE
    /\ \A message \in {DataOf(A.A_nextseqnum), Fill(90)} :
         LET r == A_output(variant, A, timer, message)
         IN /\ Dequeued(A, r.st) = 0
            /\ Enqueued(A, r.st) = r.st.queue_size - A.queue_size
            /\ Enqueued(A, r.st) > 0 => A.windowcount = WINDOWSIZE
    /\ timer # TimerOff =>
         LET r == A_timerinterrupt(variant, A, TimerOff)
         IN Dequeued(A, r.st) = 0 /\ Enqueued(A, r.st) = 0 /\ r.st.queue_size = A.queue_size
    /\ \A p \in AckPkts(variant) \cup CorruptAcks(variant) :
         LET r == A_input(variant, A, timer, p)
             d == Dequeued(A, r.st)
         IN /\ Enqueued(A, r.st) = 0
            /\ r.st.queue_size = A.queue_size - d
            /\ Len(r.out) = d
            /\ \A i \in 1 .. d :
                 r.out[i].payload = A.message_queue[(A.queue_front + i - 1) % MAX_QUEUE_SIZE]
            /\ d > 0 =>
                 /\ ~IsCorrupted(p)
                 /\ p.acknum = A.buffer[A.windowfirst].seqnum
                 /\ ~A.acked[A.windowfirst]
                 /\ Slid(A).windowcount < WINDOWSIZE
                 /\ r.st.windowcount = Slid(A).windowcount + d
            /\ r.st.queue_size = 0 \/ r.st.windowcount = WINDOWSIZE

(* an ACK of the first packet slides a full window by two slots, the       *)
(* second packet being acknowledged already, and two of the queued         *)
(* messages are sent                                                       *)
C24_TwoDequeued ==
  /\ mode = "backlog"
  /\ variant = "queue"
  /\ A.queue_size >= 2
  /\ \E p \in AckPkts(variant) :
       LET r == A_input(variant, A, timer, p)
       IN /\ Dequeued(A, r.st) = 2
          /\ r.st.windowcount = WINDOWSIZE
          /\ r.st.queue_size = A.queue_size - 2

(* C25: SACK variant: in every reachable sender state the sequence numbers *)
(* stored in the windowcount slots starting at windowfirst are pairwise    *)
(* distinct and form the contiguous modular range that ends at             *)
(* (A_nextseqnum - 1) mod SEQSPACE: slot windowfirst + i holds seqnum      *)
(* (A_nextseqnum - windowcount + i) mod SEQSPACE.                          *)
C25_WindowContiguous ==
  (mode = "send" /\ variant = "sack") =>
    LET SeqAt(i) == A.buffer[(A.windowfirst + i) % WINDOWSIZE].seqnum
        InWin == 0 .. (A.windowcount - 1)
    IN /\ \A i \in InWin :
            SeqAt(i) = (A.A_nextseqnum - A.windowcount + i + SEQSPACE) % SEQSPACE
       /\ \A i, j \in InWin : i # j => SeqAt(i) # SeqAt(j)

(* a full window whose sequence numbers wrap past SEQSPACE - 1 and whose   *)
(* slots wrap past the end of the buffer, with a packet in the middle      *)
(* acknowledged                                                            *)
C25_WrappedWindow ==
  /\ mode = "send"
  /\ variant = "sack"
  /\ A.windowcount = WINDOWSIZE
  /\ A.A_nextseqnum = 2
  /\ A.windowfirst = 2
  /\ A.buffer[A.windowfirst].seqnum = SEQSPACE - 4
  /\ A.buffer[A.windowlast].seqnum = 1
  /\ A.acked[(A.windowfirst + 2) % WINDOWSIZE]

(* the entries of the SACK list an ACK packet carries *)
SackSet(packet) ==
  LET sack == DecodeSACK(packet) IN {sack.seqnums[i] : i \in 1 .. sack.count}

(* C26: SACK variant: every ACK B_input sends in response to an            *)
(* uncorrupted in-window data packet carries a SACK list that decodes to   *)
(* exactly the sequence numbers B has received and buffered but not yet    *)
(* delivered after processing the packet, the primary acknum left out,     *)
(* each listed once, with count <= MAX_SACK; no listed number is one B has *)
(* not received or has already delivered.                                  *)
C26_SackIsHeldSet ==
  (mode = "recv" /\ variant = "sack" /\ last.op = "B_input"
     /\ OffsetFrom(last.pre.rcv_base, last.arg.seqnum) < WINDOWSIZE) =>
    /\ Len(last.out) = 1
    /\ last.out[1].acknum = last.arg.seqnum
    /\ DecodeSACK(last.out[1]).count <= MAX_SACK
    /\ Cardinality(SackSet(last.out[1])) = DecodeSACK(last.out[1]).count
    /\ SackSet(last.out[1]) = last.held \ {last.out[1].acknum}

(* the expected packet arrives while B holds three later ones, two of them *)
(* next in line; the ACK lists the one that stays behind the gap           *)
C26_SackAfterDelivery ==
  /\ mode = "recv"
  /\ variant = "sack"
  /\ last.op = "B_input"
  /\ last.arg.seqnum = SEQSPACE - 2
  /\ Len(last.deliv) = 3
  /\ DecodeSACK(last.out[1]) = [count |-> 1, seqnums |-> <<2>>]
  /\ last.held = {2}

(* C27: in the variants without an outbound queue (SR-base, SR-timerseq,   *)
(* SACK), A_output called with windowcount = WINDOWSIZE sends no packet,   *)
(* starts no timer and leaves the window buffer, the acknowledged flags,   *)
(* windowcount and A_nextseqnum unchanged; only window_full is             *)
(* incremented.                                                            *)
C27_FullWindowRefuses ==
  (mode = "send" /\ variant \in {"base", "timerseq", "sack"}
     /\ A.windowcount = WINDOWSIZE) =>
    \A message \in {DataOf(A.A_nextseqnum), Fill(90), ZeroPayload} :
      A_output(variant, A, timer, message) =
        Res(A, timer, <<>>, <<>>, <<>>, [NoCnt EXCEPT !.window_full = 1])

(* a full window with its last packet acknowledged and the timer running:  *)
(* the message is refused                                                  *)
C27_RefusedWhileWaiting ==
  /\ mode = "send"
  /\ variant = "timerseq"
  /\ A.windowcount = WINDOWSIZE
  /\ A.acked[A.windowlast]
  /\ timer # TimerOff
  /\ nsub = MaxBlocked
  /\ A_output(variant, A, timer, Fill(90)).cnt.window_full = 1
  /\ A_output(variant, A, timer, Fill(90)).out = <<>>

(* the oldest slot of the sender window holds the oldest outstanding       *)
(* packet and that packet is not marked acknowledged                       *)
OldestUnacked(v, a) ==
  IF v = "base"
  THEN /\ a.packet_timer[a.A_windowbase % WINDOWSIZE] = 0
       /\ a.buffer[a.A_windowbase % WINDOWSIZE].seqnum = a.A_windowbase
  ELSE /\ ~a.acked[a.windowfirst]
       /\ a.buffer[a.windowfirst].seqnum =
            (a.A_nextseqnum - a.windowcount + SEQSPACE) % SEQSPACE

(* the slots the window base has moved by between two sender states *)
SlidBy(v, a, st) ==
  IF v = "base" THEN (st.A_windowbase - a.A_windowbase + SEQSPACE) % SEQSPACE
  ELSE (st.windowfirst - a.windowfirst + WINDOWSIZE) % WINDOWSIZE

(* C28: in every variant, after any A_input call returns, either           *)
(* windowcount = 0 or the oldest slot of the sender window (window base /  *)
(* windowfirst) holds a packet that is not marked acknowledged: the window *)
(* is always slid past every leading acknowledged packet, and windowcount  *)
(* is decremented once per slot slid (and incremented once per queued      *)
(* message the call sends).                                                *)
C28_SlidPastAcked ==
  mode = "send" =>
    \A p \in AckPkts(variant) \cup CorruptAcks(variant) :
      LET r == A_input(variant, A, timer, p)
          freed == A.windowcount + Len(r.out) - r.st.windowcount
      IN /\ r.st.windowcount = 0 \/ OldestUnacked(variant, r.st)
         /\ freed >= 0 /\ freed <= A.windowcount
         /\ SlidBy(variant, A, r.st) =
              freed % (IF variant = "base" THEN SEQSPACE ELSE WINDOWSIZE)

(* the first packet of a full window is acknowledged last: one ACK slides  *)
(* the window over all its slots at once                                   *)
C28_SlidOverWholeWindow ==
  /\ mode = "send"
  /\ variant = "timerseq"
  /\ A.windowcount = WINDOWSIZE
  /\ \E p \in AckPkts(variant) :
       /\ p.acknum = A.buffer[A.windowfirst].seqnum
       /\ A_input(variant, A, timer, p).st.windowcount = 0

(***************************************************************************)
(* The SR-queue and the SACK variant with a stream of messages longer than *)
(* the sequence space, over a network that loses and corrupts nothing.     *)
(***************************************************************************)
InitStream == \E v \in {"queue", "sack"} : InitOf(v, "stream")
NextStream == Output \/ DeliverToB \/ DeliverToA
SpecStream == InitStream /\ [][NextStream]_vars

(* the messages A has taken in and not yet sent: those in the queue *)
Waiting(v, a) == IF v = "queue" THEN a.queue_size ELSE 0

(* C29: SR-queue and SACK: each A_output call made with windowcount <      *)
(* WINDOWSIZE transmits exactly one packet whose seqnum is the current     *)
(* A_nextseqnum, whose acknum is NOTINUSE, whose payload is the message    *)
(* data and whose checksum makes IsCorrupted false, then advances          *)
(* A_nextseqnum by 1 modulo SEQSPACE; hence the k-th accepted message      *)
(* (k from 0) carries seqnum k mod SEQSPACE.                               *)
C29_SeqnumPerMessage ==
  (mode = "stream" /\ variant \in {"queue", "sack"}) =>
    /\ A.windowcount < WINDOWSIZE =>
         \A message \in {MsgData(nsub), Fill(90)} :
           LET r == A_output(variant, A, timer, message)
           IN /\ Len(r.out) = 1
              /\ r.out[1].seqnum = A.A_nextseqnum
              /\ r.out[1].acknum = NOTINUSE
              /\ r.out[1].payload = message
              /\ ~IsCorrupted(r.out[1])
              /\ r.st.A_nextseqnum = (A.A_nextseqnum + 1) % SEQSPACE
    /\ Len(sent) = Len(accepted) - Waiting(variant, A)
    /\ \A i \in 1 .. Len(sent) :
         /\ sent[i].payload = accepted[i]
         /\ sent[i].seqnum = (i - 1) % SEQSPACE

(* the whole stream has been sent, part of it from the queue; the          *)
(* thirteenth message went out with sequence number 0 again                *)
C29_StreamSent ==
  /\ mode = "stream"
  /\ variant = "queue"
  /\ Len(sent) = StreamMsgs
  /\ A.queue_rear >= 2
  /\ sent[SEQSPACE + 1].seqnum = 0
  /\ sent[SEQSPACE + 1].payload = MsgData(SEQSPACE)
  /\ sent[SEQSPACE + 1] # sent[1]

(* the sequence numbers the SR-base receiver's flags say it holds *)
Flagged_base(b) ==
  {(b.B_windowbase + i) % SEQSPACE : i \in {j \in Slots : b.packet_received[j] # 0}}

(* C30: SR-base receiver, uncorrupted data packets, the same payload for   *)
(* the same seqnum: B delivers payloads strictly in sequence-number order, *)
(* each packet at most once (a call delivers the base packet it was given  *)
(* and the packets held right after it, no other); an in-window packet     *)
(* that is not the base is buffered without delivery, and buffering a      *)
(* retransmission changes nothing; after every B_input call                *)
(* packet_received[0] = 0 and B_windowbase has moved on by the number of   *)
(* packets delivered, modulo SEQSPACE.                                     *)
C30_InOrderOnce ==
  (mode = "recv" /\ variant = "base" /\ last.op = "B_input") =>
    LET pre == last.pre
        seq == last.arg.seqnum
        off == OffsetFrom(pre.B_windowbase, seq)
        n == Len(last.deliv)
    IN /\ last.deliv = InOrderRun(pre.B_windowbase, n)
       /\ B.B_windowbase = (pre.B_windowbase + n) % SEQSPACE
       /\ B.packet_received[0] = 0
       /\ n > 0 => /\ off = 0
                   /\ n <= WINDOWSIZE
                   /\ \A k \in 1 .. (n - 1) : pre.packet_received[k] # 0
       /\ off = 0 => n > 0
       /\ Flagged_base(B) = last.held
       /\ \A i \in Slots :
            B.packet_received[i] # 0 =>
              B.recv_buffer[i] = DataPkt((B.B_windowbase + i) % SEQSPACE)
       /\ (off > 0 /\ off < WINDOWSIZE) =>
            /\ n = 0
            /\ B.packet_received = [pre.packet_received EXCEPT ![off] = 1]
            /\ B.recv_buffer = [pre.recv_buffer EXCEPT ![off] = last.arg]
            /\ pre.packet_received[off] # 0 =>
                 /\ B.recv_buffer = pre.recv_buffer
                 /\ B.packet_received = pre.packet_received
                 /\ last.cnt.packets_received = 0

(* the base packet arrives last: the window is full of later packets and   *)
(* all six payloads are delivered in order across the wrap of the sequence *)
(* numbers                                                                 *)
C30_WholeWindowDelivered ==
  /\ mode = "recv"
  /\ variant = "base"
  /\ last.op = "B_input"
  /\ last.pre.B_windowbase = SEQSPACE - 3
  /\ last.arg.seqnum = SEQSPACE - 3
  /\ Len(last.deliv) = WINDOWSIZE
  /\ last.deliv[WINDOWSIZE] = DataOf(2)
  /\ B.B_windowbase = 3

(* C31: in the timerseq variant, whenever A's timer is running,            *)
(* current_timer_seq is the seqnum of the oldest unacknowledged packet,    *)
(* the packet in slot windowfirst; every A_timerinterrupt with             *)
(* windowcount > 0 sends exactly that packet again, counts one             *)
(* packets_resent and starts the timer again for the same packet.          *)
C31_TimerOnOldest ==
  (mode = "send" /\ variant = "timerseq") =>
    /\ (timer # TimerOff) = (A.timer_running = 1)
    /\ timer # TimerOff =>
         /\ A.windowcount > 0
         /\ ~A.acked[A.windowfirst]
         /\ A.current_timer_seq = A.buffer[A.windowfirst].seqnum
    /\ A.windowcount > 0 =>
         LET r == A_timerinterrupt(variant, A, TimerOff)
         IN /\ r.out = <<A.buffer[A.windowfirst]>>
            /\ r.cnt.packets_resent = 1
            /\ r.tm = RTT
            /\ r.calls = <<StartCall(TimerOff)>>
            /\ r.st.timer_running = 1
            /\ r.st.current_timer_seq = A.buffer[A.windowfirst].seqnum

(* the timer runs for the oldest packet while a later one of a full window *)
(* is already acknowledged                                                 *)
C31_OldestTimedBehindAcked ==
  /\ mode = "send" /\ variant = "timerseq"
  /\ timer # TimerOff
  /\ A.windowcount = WINDOWSIZE
  /\ \E i \in Slots : A.acked[i] /\ i # A.windowfirst
  /\ A.current_timer_seq = A.buffer[A.windowfirst].seqnum
  /\ A.windowfirst # 0

(* the messages waiting in the queue, oldest first *)
Waiters(a) ==
  [i \in 1 .. a.queue_size |-> a.message_queue[(a.queue_front + i - 1) % MAX_QUEUE_SIZE]]

(* C32: SR-queue: after every handler returns, queue_size > 0 implies      *)
(* windowcount = WINDOWSIZE, so no message waits in the queue while a      *)
(* window slot is free; and a message handed to A_output while others wait *)
(* is not sent: it goes behind every waiting message or, if the queue is   *)
(* full, is dropped, so it never overtakes a queued one.                   *)
C32_NoWaitingBesideFreeSlot ==
  (mode \in {"send", "backlog"} /\ variant = "queue") =>
    /\ A.queue_size > 0 => A.windowcount = WINDOWSIZE
    /\ \A p \in AckPkts(variant) \cup CorruptAcks(variant) :
         LET r == A_input(variant, A, timer, p)
         IN r.st.queue_size > 0 => r.st.windowcount = WINDOWSIZE
    /\ timer # TimerOff =>
         LET r == A_timerinterrupt(variant, A, TimerOff)
         IN r.st.queue_size > 0 => r.st.windowcount = WINDOWSIZE
    /\ \A message \in {DataOf(A.A_nextseqnum), Fill(90)} :
         LET r == A_output(variant, A, timer, message)
         IN /\ r.st.queue_size > 0 => r.st.windowcount = WINDOWSIZE
            /\ A.queue_size > 0 =>
                 /\ r.out = <<>>
                 /\ \/ Waiters(r.st) = Waiters(A) \o <<message>>
                    \/ A.queue_size = MAX_QUEUE_SIZE /\ Waiters(r.st) = Waiters(A)

(* a message waits behind a full window in a queue that has been drained   *)
(* before, so that its front has moved                                     *)
C32_WaitingBehindFullWindow ==
  /\ mode = "backlog" /\ variant = "queue"
  /\ A.queue_size > 0 /\ A.queue_size < MAX_QUEUE_SIZE
  /\ A.queue_front > 0
  /\ A.windowcount = WINDOWSIZE
  /\ A_output(variant, A, timer, Fill(90)).out = <<>>
  /\ Len(Waiters(A_output(variant, A, timer, Fill(90)).st)) = A.queue_size + 1

(* C33: SACK variant: after every sender handler returns, timer_running    *)
(* tells whether A's timer is running, and the timer is running exactly    *)
(* when windowcount > 0: no packet is outstanding without a pending        *)
(* timeout and no timeout is pending for an empty window.                  *)
C33_TimerFlagTrue ==
  (variant = "sack" /\ (mode = "send" \/ EndToEnd)) =>
    /\ A.timer_running \in {0, 1}
    /\ (A.timer_running = 1) = (timer # TimerOff)
    /\ (timer # TimerOff) = (A.windowcount > 0)

(* the window has emptied and filled again after several packets were      *)
(* acknowledged by one ACK                                                 *)
C33_RestartedAfterEmpty ==
  /\ variant = "sack" /\ mode = "send"
  /\ A.windowcount > 0 /\ A.windowcount < WINDOWSIZE
  /\ A.windowfirst = (A.windowlast + WINDOWSIZE + 1 - A.windowcount) % WINDOWSIZE
  /\ A.windowfirst > 1
  /\ A.timer_running = 1 /\ timer # TimerOff
  /\ \E i \in Slots : A.acked[i] /\ A.timers[i] = NOTINUSE

(* the handler called stoptimer while A's timer was not running *)
StoppedIdle(r) == \E i \in 1 .. Len(r.calls) : r.calls[i] = <<"stoptimer", FALSE>>

(* C34: SACK and SR-queue variants: every stoptimer(A) call of the sender  *)
(* is made while A's timer is running, never after it has expired or been  *)
(* stopped: in A_input, also when one ACK newly acknowledges several       *)
(* packets, and in A_timerinterrupt.                                       *)
C34_StopOnlyRunning ==
  (mode = "send" /\ variant \in {"sack", "queue"}) =>
    /\ \A p \in AckPkts(variant) \cup CorruptAcks(variant) :
         ~StoppedIdle(A_input(variant, A, timer, p))
    /\ timer # TimerOff => ~StoppedIdle(A_timerinterrupt(variant, A, TimerOff))
    /\ ~StoppedIdle(A_output(variant, A, timer, DataOf(A.A_nextseqnum)))

(***************************************************************************)
(* The SACK variant over a stream long enough for sequence numbers to be   *)
(* used a second time, with faults.                                        *)
(***************************************************************************)
SpecReuse == InitOf("sack", "reuse") /\ [][Next]_vars

(* the window slots A_input marks acknowledged in a call that returns st *)
Marked(a, st) == {idx \in Slots : ~a.acked[idx] /\ st.acked[idx]}

(* C35: SACK variant, order-preserving network with detected corruption:   *)
(* whatever ACK arrives next at A, intact or corrupted, each window slot   *)
(* A_input marks acknowledged holds a packet of which B has already        *)
(* received an intact copy; an ACK or SACK entry left from an earlier use  *)
(* of the sequence number never acknowledges a packet B has not received.  *)
C35_AckedWasReceived ==
  (mode = "reuse" /\ variant = "sack" /\ BtoA # <<>>) =>
    \A k \in 0 .. 3 :
      LET packet == IF k = 0 THEN Head(BtoA) ELSE Corrupt(Head(BtoA), k)
      IN \A idx \in Marked(A, A_input(variant, A, timer, packet).st) :
           A.buffer[idx] \in Got

(* a sequence number is in use for the second time and the ACK arriving    *)
(* next acknowledges two packets at once, one of them by its SACK entry    *)
C35_SecondUseAcked ==
  /\ mode = "reuse" /\ variant = "sack" /\ BtoA # <<>>
  /\ nsub > SEQSPACE
  /\ A.A_nextseqnum < A.windowcount
  /\ Cardinality(Marked(A, A_input(variant, A, timer, Head(BtoA)).st)) >= 2
  /\ \E idx \in Marked(A, A_input(variant, A, timer, Head(BtoA)).st) :
       A.buffer[idx].seqnum < StreamMsgs - SEQSPACE

(***************************************************************************)
(* The SR-queue variant over the same stream with faults.                  *)
(***************************************************************************)
SpecReuseQueue == InitOf("queue", "reuse") /\ [][Next]_vars

(* the payload has been handed to layer 5 at B *)
WasDelivered(payload) == \E i \in 1 .. Len(delivered) : delivered[i] = payload

(* rcv_base lies between A's oldest outstanding sequence number and        *)
(* A_nextseqnum                                                            *)
BaseInSendWindow ==
  /\ OffsetFrom((A.A_nextseqnum - A.windowcount + SEQSPACE) % SEQSPACE, B.rcv_base)
       <= A.windowcount
  /\ B.rcv_base = B.expectedseqnum

(* C36: SR-queue variant, both entities: in every reachable state          *)
(* (rcv_base - (A_nextseqnum - windowcount)) mod SEQSPACE <= windowcount   *)
(* and rcv_base = expectedseqnum; and the data packet that reaches B next  *)
(* has an offset (seqnum - rcv_base) mod SEQSPACE below WINDOWSIZE and is  *)
(* not yet delivered, or an offset in [WINDOWSIZE, 2*WINDOWSIZE) and is    *)
(* already delivered.                                                      *)
C36_ReceiverBaseInSendWindow ==
  (mode = "reuse" /\ variant = "queue") =>
    /\ BaseInSendWindow
    /\ AtoB # <<>> =>
         LET packet == Head(AtoB)
             offset == OffsetFrom(B.rcv_base, packet.seqnum)
         IN \/ offset < WINDOWSIZE /\ ~WasDelivered(packet.payload)
            \/ /\ offset >= WINDOWSIZE /\ offset < 2 * WINDOWSIZE
               /\ WasDelivered(packet.payload)

(* the acknum values an ACK packet can carry *)
WireAcknums == SeqNums \cup {NOTINUSE}

(* C37: SR-queue variant: A_input terminates in every reachable sender     *)
(* state for every intact packet, whatever acknum of 0 .. SEQSPACE-1 or    *)
(* NOTINUSE it carries: whenever the in-window test succeeds, the slot     *)
(* search reaches a slot whose stored seqnum is acknum within WINDOWSIZE   *)
(* steps.                                                                  *)
C37_SlotSearchEnds ==
  (mode = "send" /\ variant = "queue") =>
    \A acknum \in WireAcknums :
      (A.windowcount # 0 /\ InSendWindow_queue(A, acknum)) =>
        LET pos == FindPos_queue(A.buffer, acknum, A.windowfirst, 0)
        IN pos # -1 /\ A.buffer[pos].seqnum = acknum

(* C38: SACK variant: after every B_input call, for each index i with      *)
(* received[i] true, rcv_buffer[i] holds the packet whose seqnum is        *)
(* (rcv_base + i) mod SEQSPACE, so that the payload delivered later from   *)
(* slot i is the one that arrived with that sequence number; also after    *)
(* the window has slid by one or more positions.                           *)
C38_FlaggedSlotHoldsPacket ==
  (mode = "recv" /\ variant = "sack") =>
    \A i \in Slots :
      B.received[i] => B.rcv_buffer[i] = DataPkt((B.rcv_base + i) % SEQSPACE)

====
